---- MODULE Spec2Model ----
(***************************************************************************)
(* Signal-driven trade execution engine of BreakingBadV5.                  *)
(*                                                                         *)
(* Two state machines share this module:                                   *)
(*   SpecFM  the martingale loop of first_main.py (run_trade), one         *)
(*           invocation against a venue that answers nondeterministically; *)
(*   Spec    the execution engine (run_trade of iqclient with the          *)
(*           active-trade registry, the pause flag and the smart           *)
(*           martingale ledger of smart_trade.py), several runs that       *)
(*           interleave at their suspension points. iqclient is not among  *)
(*           the sources: the engine follows the design document           *)
(*           (sections 4.3 to 4.5), the ledger follows smart_trade.py.     *)
(* Money is counted in tenths of the account currency (10 = 1.0).          *)
(***************************************************************************)
EXTENDS Integers, Sequences, FiniteSets, TLC

\* ---------------------------------------------------------------- bounds
\* Largest max_gales passed to first_main.run_trade.
MaxGalesBound == 2
\* Number of engine runs (signals fired) in one behaviour.
NumRuns == 2

\* ------------------------------------------------------------- constants
\* Connect attempts of one ensure_connection call, tests/test_connection.py.
MaxConnectAttempts == 3
\* retries = 20 of the wait for candles, backcheck_signals.py.
Retries == 20
\* Payout of a winning order in tenths of its stake (80 %), tests/test_pnl.py.
PayoutTenths == 8

Amounts == {10, 20}
GaleValues == 0..MaxGalesBound
\* Values of config.max_martingale_gales (tests/test_dynamic_settings.py).
CfgGales == {0, 1}

\* None of Python: the pnl of an outcome that did not resolve.
None == "None"

\* Largest config.max_martingale_gales given to the ledger on its own.
MaxCeiling == 2
\* The handshake timeout of start_websocket (10 s) in sleeps of the poll loop.
TimeoutTicks == 2
\* Number of start_websocket calls in one behaviour.
MaxStarts == 2
\* Number of inbound frames in one behaviour.
MaxFrames == 2
\* Number of execute() calls in one behaviour of the entry guard on its own.
MaxGuardRuns == 3
\* Number of ensure_connection calls in one behaviour.
MaxEnsureCalls == 3
\* Last reading of time.time(), in hundredths of a second.
MaxClock == 60
\* Number of send_message calls in one behaviour.
MaxRequests == 2
\* Number of candle requests of backcheck_signals.main in one behaviour.
MaxWaits == 3

VARIABLES
    \* ---- first_main.run_trade, one invocation
    fm_pc,              \* "idle" | "place" | "wait" | "returned"
    fm_amount,          \* parameter amount
    fm_max_gales,       \* parameter max_gales
    fm_current_amount,  \* local current_amount
    fm_gale,            \* loop variable gale
    fm_orders,          \* orders the venue accepted: <<[stake, ok, pnl]>>
    fm_exit,            \* how the call ended: "none" | "FAILED" | "WIN" | "LOSS" | "RAISED"
    \* ---- settings.config, owned by the front end
    paused,
    suppress_overlapping_signals,
    smart_martingale,
    max_martingale_gales,
    martingale_multiplier,
    \* ---- the engine
    ACTIVE_TRADES,      \* the active-trade registry: a set of <<asset, direction>>
    states,             \* SmartTradeManager.states: asset -> [level, last_result]
    run,                \* the runs: run[r] is the frame of one run_trade call
    \* ---- a caller of SmartTradeManager
    led,                \* the last call made on the manager and what it returned
    \* ---- wsmanager.iqwebsocket.WebSocketManager
    ws_is_open,         \* self.ws_is_open
    ws_is_active,       \* self.ws_is_active
    websocket,          \* self.websocket: 0 is None, n the app of the n-th start
    wst,                \* wst[n]: the receive thread of app n (run_forever)
    ws_cb,              \* ws_cb[n]: the callback that thread is inside, or "none"
    ws_log,             \* per inbound frame, in order: "handled" (handle_message called) or "dropped"
    ws_failed,          \* history: the apps whose _on_error has returned
    ws_closed,          \* history: close() was called since the last start_websocket
    sw_pc,              \* the caller of start_websocket: "idle" | "poll"
    sw_elapsed,         \* sleeps made by the poll loop of the current call
    sw_exit,            \* how the last call ended: "none" | "opened" | "timeout"
    \* ---- ensure_connection of the front end
    api_connected,      \* api._connected
    ec_pc,              \* "idle" | "trying" | "backoff" | "returned" | "raised"
    ec_log,             \* what each api._connect() of the current call did
    ec_calls,           \* ensure_connection calls made so far
    \* ---- WebSocketManager.send_message
    clk,                \* the last reading of time.time(), in hundredths
    rq,                 \* requests sent: <<[id, open]>>, open until answered
    \* ---- the wait for candles of backcheck_signals.main
    candles,            \* api.message_handler.candles: {} is None, {n} the reply to request n
    bc_pc,              \* "next" | "poll" | "read" | "crashed"
    bc_retries,         \* local retries
    bc_n,               \* get-candles requests sent so far
    bc_pending,         \* requests whose reply has not reached the handler
    bc_got,             \* what each finished wait gave its caller
    bc_read,            \* the latch values read at line 163, one per finished wait
    \* ---- signal_parser.parse_signal, one line
    ps_pc,              \* "input" | "parsed" | "reparsed"
    ps_line,            \* the line given to parse_signal, a sequence of characters
    ps_out,             \* what parse_signal returned for it
    ps_back,            \* what parse_signal returned for the re-serialized signal
    \* ---- timezone_utils.parse_time_12h, one call
    tz_pc,              \* "input" | "resolved"
    tz_now,             \* now(), in seconds since the midnight that began today
    tz_hour,            \* the arguments: hour, minute, am_pm
    tz_minute,
    tz_am_pm,
    tz_entry,           \* the returned instant, same unit as tz_now
    \* ---- one text given to parse_signals_from_text and to parse_channel_signal
    tx_pc,              \* "input" | "text" | "done" | "filed"
    tx_text,            \* the text, a sequence of characters
    tx_now,             \* now() at the call of parse_channel_signal
    tx_signals,         \* what parse_signals_from_text returned
    tx_channel,         \* what parse_channel_signal returned
    tx_file             \* what parse_signals_from_file returned for a file of this text

ledVars == <<led>>
wsVars == <<ws_is_open, ws_is_active, websocket, wst, ws_cb, ws_log, ws_failed, ws_closed,
           sw_pc, sw_elapsed, sw_exit>>
ecVars == <<api_connected, ec_pc, ec_log, ec_calls>>
reqVars == <<clk, rq>>
bcVars == <<candles, bc_pc, bc_retries, bc_n, bc_pending, bc_got, bc_read>>
psVars == <<ps_pc, ps_line, ps_out, ps_back>>
tzVars == <<tz_pc, tz_now, tz_hour, tz_minute, tz_am_pm, tz_entry>>
txVars == <<tx_pc, tx_text, tx_now, tx_signals, tx_channel, tx_file>>
auxVars == <<ledVars, wsVars, ecVars, reqVars, bcVars, psVars, tzVars, txVars>>

fmVars == <<fm_pc, fm_amount, fm_max_gales, fm_current_amount, fm_gale, fm_orders, fm_exit>>

\* ---------------------------------------------------------------- venue
\* What the venue pays on an order of this stake that wins.
Payout(stake) == (stake * PayoutTenths) \div 10

\* The answers get_trade_outcome can give for an order of this stake:
\* (pnl_ok, pnl), resolved with a loss, a tie or a win, or unresolved.
VenueOutcomes(stake) ==
    { [ok |-> TRUE, pnl |-> -stake],
      [ok |-> TRUE, pnl |-> 0],
      [ok |-> TRUE, pnl |-> Payout(stake)],
      [ok |-> FALSE, pnl |-> None] }

\* The answers the engine tells apart: a loss, a win, no answer in time.
EngineOutcomes(stake) == { o \in VenueOutcomes(stake) : o.ok => o.pnl # 0 }

\* ------------------------------------------------------------- settings
cfgVars == <<paused, suppress_overlapping_signals, smart_martingale,
             max_martingale_gales, martingale_multiplier>>

Multipliers == {2, 3}

\* The multiplier is read in smart mode only.
CfgInit ==
    /\ paused \in BOOLEAN
    /\ suppress_overlapping_signals \in BOOLEAN
    /\ smart_martingale \in BOOLEAN
    /\ max_martingale_gales \in CfgGales
    /\ martingale_multiplier \in IF smart_martingale THEN Multipliers ELSE {2}

\* The front end changes one setting; the engine never does.
SetPaused(b) ==
    /\ paused # b
    /\ paused' = b
    /\ UNCHANGED <<suppress_overlapping_signals, smart_martingale, max_martingale_gales, martingale_multiplier>>

SetMaxGales(g) ==
    /\ max_martingale_gales # g
    /\ max_martingale_gales' = g
    /\ UNCHANGED <<paused, suppress_overlapping_signals, smart_martingale, martingale_multiplier>>

\* ------------------------------------------- smart_trade.SmartTradeManager
RECURSIVE Pow(_, _)
Pow(b, n) == IF n = 0 THEN 1 ELSE b * Pow(b, n - 1)

\* self.states.get(asset, {"level": 0})
StateOf(asset) ==
    IF asset \in DOMAIN states THEN states[asset] ELSE [level |-> 0]

\* The whole ledger replaced by the one entry.
StatesWithOnly(asset, entry) ==
    [a \in {asset} |-> entry]

\* self.states[asset] = entry
StatesWith(asset, entry) ==
    [a \in (DOMAIN states) \cup {asset} |-> IF a = asset THEN entry ELSE states[a]]

\* Smart mode that keeps the classic attempt budget.
get_trade_detailsClassicBudget(asset, base_amount) ==
    LET level == StateOf(asset).level
    IN  [amount |-> IF ~smart_martingale \/ level = 0 THEN base_amount
                    ELSE base_amount * Pow(martingale_multiplier, level),
         max_gales |-> max_martingale_gales]

\* The stake grown linearly with the level.
get_trade_detailsLinear(asset, base_amount) ==
    IF ~smart_martingale
    THEN [amount |-> base_amount, max_gales |-> max_martingale_gales]
    ELSE LET level == StateOf(asset).level
         IN  [amount |-> IF level = 0 THEN base_amount
                         ELSE base_amount * martingale_multiplier * level,
              max_gales |-> 0]

\* get_trade_details(asset, base_amount) -> (amount, max_gales)
get_trade_details(asset, base_amount) ==
    IF ~smart_martingale
    THEN [amount |-> base_amount, max_gales |-> max_martingale_gales]
    ELSE LET level == StateOf(asset).level
         IN  [amount |-> IF level = 0 THEN base_amount
                         ELSE base_amount * Pow(martingale_multiplier, level),
              max_gales |-> 0]

\* A read that stores the default entry it did not find (setdefault).
StatesAfterReadInserts(asset) == StatesWith(asset, StateOf(asset))

\* self.states after get_trade_details(asset, ...): get() stores nothing.
StatesAfterRead(asset) == states

\* The ceiling test made with <= : one level too many.
update_resultOffByOne(asset, result) ==
    IF ~smart_martingale THEN states
    ELSE LET level == StateOf(asset).level
         IN  IF result = "WIN"
             THEN StatesWith(asset, [level |-> 0, last_result |-> "WIN"])
             ELSE IF result = "LOSS"
             THEN IF level <= max_martingale_gales
                  THEN StatesWith(asset, [level |-> level + 1, last_result |-> "LOSS"])
                  ELSE StatesWith(asset, [level |-> 0, last_result |-> "RESET"])
             ELSE states

\* A LOSS that raises the level whatever the ceiling.
update_resultNoCeiling(asset, result) ==
    IF ~smart_martingale THEN states
    ELSE LET level == StateOf(asset).level
         IN  IF result = "WIN"
             THEN StatesWith(asset, [level |-> 0, last_result |-> "WIN"])
             ELSE IF result = "LOSS"
             THEN StatesWith(asset, [level |-> level + 1, last_result |-> "LOSS"])
             ELSE states

\* Every result but WIN taken as a loss.
update_resultElseLoss(asset, result) ==
    IF ~smart_martingale THEN states
    ELSE LET level == StateOf(asset).level
         IN  IF result = "WIN"
             THEN StatesWith(asset, [level |-> 0, last_result |-> "WIN"])
             ELSE IF level < max_martingale_gales
                  THEN StatesWith(asset, [level |-> level + 1, last_result |-> "LOSS"])
                  ELSE StatesWith(asset, [level |-> 0, last_result |-> "RESET"])

\* A WIN that records the result and keeps the level.
update_resultWinKeeps(asset, result) ==
    IF ~smart_martingale THEN states
    ELSE LET level == StateOf(asset).level
         IN  IF result = "WIN"
             THEN StatesWith(asset, [level |-> level, last_result |-> "WIN"])
             ELSE IF result = "LOSS"
             THEN IF level < max_martingale_gales
                  THEN StatesWith(asset, [level |-> level + 1, last_result |-> "LOSS"])
                  ELSE StatesWith(asset, [level |-> 0, last_result |-> "RESET"])
             ELSE states

\* update_result(asset, result): the value of self.states after the call.
update_result(asset, result) ==
    IF ~smart_martingale THEN states
    ELSE LET level == StateOf(asset).level
         IN  IF result = "WIN"
             THEN StatesWith(asset, [level |-> 0, last_result |-> "WIN"])
             ELSE IF result = "LOSS"
             THEN IF level < max_martingale_gales
                  THEN StatesWith(asset, [level |-> level + 1, last_result |-> "LOSS"])
                  ELSE StatesWith(asset, [level |-> 0, last_result |-> "RESET"])
             ELSE states

\* ---- a caller of the manager: any sequence of reads and updates
LedgerGales == 0..MaxCeiling
LedgerResults == {"WIN", "LOSS", "NO_DATA", "SKIPPED", "SUPPRESSED", "ERROR"}

NoCall ==
    [op |-> "none", asset |-> "-", base |-> 0, result |-> "-", level |-> 0,
     ceiling |-> 0, ret |-> [amount |-> 0, max_gales |-> 0]]

LedInit == led = NoCall

\* amount, gales = manager.get_trade_details(asset, base_amount)
ReadLedger(asset, base_amount) ==
    /\ led' = [op |-> "read", asset |-> asset, base |-> base_amount, result |-> "-",
               level |-> StateOf(asset).level, ceiling |-> max_martingale_gales,
               ret |-> get_trade_details(asset, base_amount)]
    /\ states' = StatesAfterRead(asset)

\* manager.update_result(asset, result)
UpdateLedger(asset, result) ==
    /\ led' = [op |-> "update", asset |-> asset, base |-> 0, result |-> result,
               level |-> StateOf(asset).level, ceiling |-> max_martingale_gales,
               ret |-> [amount |-> 0, max_gales |-> 0]]
    /\ states' = update_result(asset, result)

\* --------------------------------- wsmanager.iqwebsocket.WebSocketManager
Apps == 1..MaxStarts

\* __init__: lines 22-33.
WsInit ==
    /\ ws_is_open = FALSE
    /\ ws_is_active = FALSE
    /\ websocket = 0
    /\ wst = [n \in Apps |-> "none"]
    /\ ws_cb = [n \in Apps |-> "none"]
    /\ ws_log = <<>>
    /\ ws_failed = {}
    /\ ws_closed = FALSE
    /\ sw_pc = "idle"
    /\ sw_elapsed = 0
    /\ sw_exit = "none"

\* start_websocket, lines 40-58: the flags reset, a new app, its thread
\* started, the clock read.
SwStart ==
    /\ sw_pc = "idle"
    /\ websocket < MaxStarts
    /\ ws_is_open' = FALSE
    /\ ws_is_active' = FALSE
    /\ websocket' = websocket + 1
    /\ wst' = [wst EXCEPT ![websocket + 1] = "connecting"]
    /\ sw_pc' = "poll"
    /\ sw_elapsed' = 0
    /\ sw_exit' = "none"
    /\ ws_closed' = FALSE
    /\ UNCHANGED <<ws_cb, ws_log, ws_failed>>

\* time.time() - start > timeout, line 61.
SwTimedOut == sw_elapsed > TimeoutTicks

\* start_websocket, lines 60-64: one test of the while condition. The loop
\* ends when the flag is seen set, or by the break of line 63; either way
\* the function returns.
SwPoll ==
    /\ sw_pc = "poll"
    /\ IF ws_is_open
       THEN sw_pc' = "idle" /\ sw_exit' = "opened" /\ UNCHANGED sw_elapsed
       ELSE IF SwTimedOut
       THEN sw_pc' = "idle" /\ sw_exit' = "timeout" /\ UNCHANGED sw_elapsed
       ELSE sw_elapsed' = sw_elapsed + 1 /\ UNCHANGED <<sw_pc, sw_exit>>
    /\ UNCHANGED <<ws_is_open, ws_is_active, websocket, wst, ws_cb, ws_log, ws_failed, ws_closed>>

\* The receive thread of app n enters a callback (run_forever dispatches
\* on_open, on_message, on_error, on_close).
WsEvents(n) ==
    IF wst[n] = "connecting" THEN {"open", "error"}
    ELSE IF wst[n] = "open" THEN {"message", "badmessage", "error", "close"}
    ELSE IF wst[n] = "closing" THEN {"close"}
    ELSE {}

\* The frames that have arrived: those logged and those whose callback is
\* in progress.
FramesIn == Len(ws_log) + Cardinality({ n \in Apps : ws_cb[n] \in {"message", "badmessage"} })

WsDispatch(n, ev) ==
    /\ ws_cb[n] = "none"
    /\ ev \in WsEvents(n)
    /\ ev \in {"message", "badmessage"} => FramesIn < MaxFrames
    /\ ws_cb' = [ws_cb EXCEPT ![n] = ev]
    /\ wst' = [wst EXCEPT ![n] = IF ev = "open" THEN "open"
                                  ELSE IF ev = "error" THEN "closing"
                                  ELSE IF ev = "close" THEN "ended"
                                  ELSE @]
    /\ UNCHANGED <<ws_is_open, ws_is_active, websocket, ws_log, ws_failed, ws_closed,
                   sw_pc, sw_elapsed, sw_exit>>

\* Every frame is taken as decoded.
DecodedAlways(cb) == cb \in {"message", "badmessage"}

\* _on_message, line 99: json.loads(message) returns; lines 100-101 run.
Decoded(cb) == cb = "message"

\* The callback the thread of app n is inside makes its assignment and
\* returns: _on_open 118, _on_message 101 (103 for a frame that does not
\* decode), _on_error 110, _on_close 124-125.
WsCallback(n) ==
    /\ ws_cb[n] # "none"
    /\ ws_is_open' = IF ws_cb[n] = "open" THEN TRUE
                     ELSE IF ws_cb[n] \in {"error", "close"} THEN FALSE
                     ELSE ws_is_open
    /\ ws_is_active' = IF Decoded(ws_cb[n]) THEN TRUE
                       ELSE IF ws_cb[n] = "close" THEN FALSE
                       ELSE ws_is_active
    /\ ws_log' = IF Decoded(ws_cb[n]) THEN Append(ws_log, "handled")
                 ELSE IF ws_cb[n] = "badmessage" THEN Append(ws_log, "dropped")
                 ELSE ws_log
    /\ ws_failed' = IF ws_cb[n] = "error" THEN ws_failed \cup {n} ELSE ws_failed
    /\ ws_cb' = [ws_cb EXCEPT ![n] = "none"]
    /\ UNCHANGED <<websocket, wst, ws_closed, sw_pc, sw_elapsed, sw_exit>>

\* close(), lines 135-138.
WsClose ==
    /\ sw_pc = "idle"
    /\ ws_is_open' = FALSE
    /\ ws_is_active' = FALSE
    /\ wst' = IF websocket # 0 /\ wst[websocket] \in {"connecting", "open"}
              THEN [wst EXCEPT ![websocket] = "closing"]
              ELSE wst
    /\ ws_closed' = TRUE
    /\ UNCHANGED <<websocket, ws_cb, ws_log, ws_failed, sw_pc, sw_elapsed, sw_exit>>

WsNext ==
    \/ SwStart
    \/ SwPoll
    \/ \E n \in Apps, ev \in {"open", "message", "badmessage", "error", "close"} : WsDispatch(n, ev)
    \/ \E n \in Apps : WsCallback(n)
    \/ WsClose

\* ------------------------------------------- send_message and its waiters
\* Readings of time.time() per second kept by the model (two decimals).
TicksPerSecond == 100

\* str(x).split('.')[1] for a reading with fraction f hundredths: the
\* decimal digits of the fraction as repr prints them, without trailing
\* zeros ("0" for a whole number).
FractionDigits(f) ==
    IF f % 10 = 0 THEN <<f \div 10>> ELSE <<f \div 10, f % 10>>

\* int(digits)
RECURSIVE DigitsToInt(_)
DigitsToInt(ds) ==
    IF ds = <<>> THEN 0 ELSE 10 * DigitsToInt(SubSeq(ds, 1, Len(ds) - 1)) + ds[Len(ds)]

\* send_message, line 85: int(str(time.time()).split('.')[1])
RequestId(t) == DigitsToInt(FractionDigits(t % TicksPerSecond))

ReqInit ==
    /\ clk = 0
    /\ rq = <<>>

\* send_message(name, msg) with no request_id, at clock reading t.
SendMessage(t) ==
    /\ Len(rq) < MaxRequests
    /\ t > clk
    /\ clk' = t
    /\ rq' = Append(rq, [id |-> RequestId(t), open |-> TRUE])

\* The reply to request n arrived: the request is no longer outstanding.
Answered(n) ==
    /\ n \in 1..Len(rq)
    /\ rq[n].open
    /\ rq' = [rq EXCEPT ![n].open = FALSE]
    /\ UNCHANGED clk

ReqNext ==
    \/ \E t \in 1..MaxClock : SendMessage(t)
    \/ \E n \in 1..MaxRequests : Answered(n)

\* -------------------------- backcheck_signals.main: the wait for candles
\* api.message_handler.candles = None
NoCandles == {}

BcInit ==
    /\ candles = NoCandles
    /\ bc_pc = "next"
    /\ bc_retries = 0
    /\ bc_n = 0
    /\ bc_pending = {}
    /\ bc_got = <<>>
    /\ bc_read = <<>>

\* The latch left as the previous wait found it.
LatchKept == candles

\* Line 125: api.message_handler.candles = None
LatchCleared == NoCandles

\* Lines 125-158: the latch cleared, get-candles sent, retries = 20.
BcRequest ==
    /\ bc_pc = "next"
    /\ bc_n < MaxWaits
    /\ candles' = LatchCleared
    /\ bc_n' = bc_n + 1
    /\ bc_pending' = bc_pending \cup {bc_n + 1}
    /\ bc_retries' = Retries
    /\ bc_pc' = "poll"
    /\ UNCHANGED <<bc_got, bc_read>>

\* Lines 159-161: one test of the while condition, and the sleep.
BcPoll ==
    /\ bc_pc = "poll"
    /\ IF candles = NoCandles /\ bc_retries > 0
       THEN bc_retries' = bc_retries - 1 /\ UNCHANGED bc_pc
       ELSE bc_pc' = "read" /\ UNCHANGED bc_retries
    /\ UNCHANGED <<candles, bc_n, bc_pending, bc_got, bc_read>>

\* Lines 163-175: the latch is read; None passes line 164 and is iterated
\* at line 175, which raises TypeError out of main.
BcRead ==
    /\ bc_pc = "read"
    /\ bc_got' = Append(bc_got, IF candles = NoCandles THEN "TypeError" ELSE "reply")
    /\ bc_read' = Append(bc_read, candles)
    /\ bc_pc' = IF candles = NoCandles THEN "crashed" ELSE "next"
    /\ UNCHANGED <<candles, bc_retries, bc_n, bc_pending>>

\* The receive thread hands the reply to request n to the message handler,
\* which latches the candle batch in message_handler.candles.
BcDeliver(n) ==
    /\ n \in bc_pending
    /\ bc_pending' = bc_pending \ {n}
    /\ candles' = {n}
    /\ UNCHANGED <<bc_pc, bc_retries, bc_n, bc_got, bc_read>>

BcNext ==
    \/ BcRequest
    \/ BcPoll
    \/ BcRead
    \/ \E n \in 1..MaxWaits : BcDeliver(n)

\* ---------------------------------------------------------- signal_parser
\* Text is a sequence of one-character strings.
DigitChars == <<"0", "1", "2", "3", "4", "5", "6", "7", "8", "9">>
UpperChars == <<"A", "B", "C", "D", "E", "F", "G", "H", "I", "J", "K", "L", "M",
                "N", "O", "P", "Q", "R", "S", "T", "U", "V", "W", "X", "Y", "Z">>
LowerChars == <<"a", "b", "c", "d", "e", "f", "g", "h", "i", "j", "k", "l", "m",
                "n", "o", "p", "q", "r", "s", "t", "u", "v", "w", "x", "y", "z">>
Range(f) == { f[i] : i \in DOMAIN f }
DigitSet == Range(DigitChars)
UpperSet == Range(UpperChars)
LowerSet == Range(LowerChars)
LetterSet == UpperSet \cup LowerSet
IsDigit(c) == c \in DigitSet
IsLetter(c) == c \in LetterSet
\* \s
IsSpace(c) == c \in {" ", "\n"}
IsO(c) == c \in {"O", "o"}
DigitValue == [c \in DigitSet |-> (CHOOSE i \in DOMAIN DigitChars : DigitChars[i] = c) - 1]
DigitVal(c) == DigitValue[c]
\* The capital of each small letter.
ToUpper == [c \in LowerSet |-> UpperChars[CHOOSE i \in DOMAIN LowerChars : LowerChars[i] = c]]
\* c.upper()
UpperOf(c) == IF c \in LowerSet THEN ToUpper[c] ELSE c
Upper(s) == [i \in DOMAIN s |-> UpperOf(s[i])]
Drop(s, n) == SubSeq(s, n + 1, Len(s))

\* The text without its leading whitespace.
RECURSIVE SkipSpace(_)
SkipSpace(s) ==
    IF s # <<>> /\ IsSpace(s[1]) THEN SkipSpace(Tail(s)) ELSE s

RECURSIVE DropTrailingSpace(_)
DropTrailingSpace(s) ==
    IF s # <<>> /\ IsSpace(s[Len(s)]) THEN DropTrailingSpace(SubSeq(s, 1, Len(s) - 1)) ELSE s

\* s.strip()
Strip(s) == DropTrailingSpace(SkipSpace(s))

\* s.replace(a, b), a one character and b a text.
RECURSIVE Replace(_, _, _)
Replace(s, a, b) ==
    IF s = <<>> THEN <<>>
    ELSE (IF s[1] = a THEN b ELSE <<s[1]>>) \o Replace(Tail(s), a, b)

\* The repair of the letter O switched off.
SubODigitOff(s) == s

\* re.sub(r"[Oo](\d)", r"0\1", s), line 16.
RECURSIVE SubODigit(_)
SubODigit(s) ==
    IF s = <<>> THEN <<>>
    ELSE IF Len(s) >= 2 /\ IsO(s[1]) /\ IsDigit(s[2])
    THEN <<"0", s[2]>> \o SubODigit(Drop(s, 2))
    ELSE <<s[1]>> \o SubODigit(Tail(s))

\* re.sub(r"[Oo]\s*:", "0:", s), line 17.
RECURSIVE SubOColon(_)
SubOColon(s) ==
    IF s = <<>> THEN <<>>
    ELSE LET r == SkipSpace(Tail(s))
         IN  IF IsO(s[1]) /\ r # <<>> /\ r[1] = ":"
             THEN <<"0", ":">> \o SubOColon(Tail(r))
             ELSE <<s[1]>> \o SubOColon(Tail(s))

\* re.sub(r"\s+", ";", s), line 22.
RECURSIVE SpacesToSemi(_)
SpacesToSemi(s) ==
    IF s = <<>> THEN <<>>
    ELSE IF IsSpace(s[1]) THEN <<";">> \o SpacesToSemi(SkipSpace(s))
    ELSE <<s[1]>> \o SpacesToSemi(Tail(s))

\* s.count(c)
Count(s, c) == Cardinality({ i \in DOMAIN s : s[i] = c })

\* ---- the recovery of line 32: re.findall of four alternatives
\* (\d{1,2}:\d{2}): the length matched at the head of s, 0 for no match.
MatchTime(s) ==
    IF Len(s) >= 5 /\ IsDigit(s[1]) /\ IsDigit(s[2]) /\ s[3] = ":" /\ IsDigit(s[4]) /\ IsDigit(s[5])
    THEN 5
    ELSE IF Len(s) >= 4 /\ IsDigit(s[1]) /\ s[2] = ":" /\ IsDigit(s[3]) /\ IsDigit(s[4])
    THEN 4
    ELSE 0

\* [A-Z0-9:/-] with re.IGNORECASE
IsPairChar(c) == IsLetter(c) \/ IsDigit(c) \/ c \in {":", "/", "-"}

RECURSIVE PairRun(_)
PairRun(s) == IF s # <<>> /\ IsPairChar(s[1]) THEN 1 + PairRun(Tail(s)) ELSE 0

Min(a, b) == IF a < b THEN a ELSE b

\* ([A-Z0-9:/-]{3,15})
MatchPair(s) == IF PairRun(s) >= 3 THEN Min(PairRun(s), 15) ELSE 0

\* (CALL|PUT) with re.IGNORECASE
MatchDirection(s) ==
    IF Len(s) >= 4 /\ Upper(SubSeq(s, 1, 4)) = <<"C", "A", "L", "L">> THEN 4
    ELSE IF Len(s) >= 3 /\ Upper(SubSeq(s, 1, 3)) = <<"P", "U", "T">> THEN 3
    ELSE 0

\* (\d{1,2})
MatchNumber(s) ==
    IF Len(s) >= 2 /\ IsDigit(s[1]) /\ IsDigit(s[2]) THEN 2
    ELSE IF Len(s) >= 1 /\ IsDigit(s[1]) THEN 1
    ELSE 0

\* The first alternative that matches at the head of s wins.
MatchAny(s) ==
    IF MatchTime(s) > 0 THEN MatchTime(s)
    ELSE IF MatchPair(s) > 0 THEN MatchPair(s)
    ELSE IF MatchDirection(s) > 0 THEN MatchDirection(s)
    ELSE MatchNumber(s)

\* flat_parts, lines 32-39.
RECURSIVE Findall(_)
Findall(s) ==
    IF s = <<>> THEN <<>>
    ELSE IF MatchAny(s) > 0
    THEN <<SubSeq(s, 1, MatchAny(s))>> \o Findall(Drop(s, MatchAny(s)))
    ELSE Findall(Tail(s))

\* sep.join(parts)
RECURSIVE Join(_, _)
Join(parts, sep) ==
    IF parts = <<>> THEN <<>>
    ELSE IF Len(parts) = 1 THEN parts[1]
    ELSE parts[1] \o sep \o Join(Tail(parts), sep)

\* clean_signal_line(line), lines 14-44.
clean_signal_line(line) ==
    LET l1 == Strip(line)
        l2 == Replace(l1, "i", <<";">>)
        l3 == SubODigit(l2)
        l4 == SubOColon(l3)
        l5 == IF Count(l4, ";") = 0 THEN SpacesToSemi(l4) ELSE l4
        l6 == Replace(l5, " ", <<>>)
    IN  IF Count(l6, ";") < 3 /\ Len(Findall(l6)) >= 4
        THEN Join(Findall(l6), <<";">>)
        ELSE l6

\* s.split(c)
RECURSIVE Split(_, _)
Split(s, c) ==
    IF Count(s, c) = 0 THEN <<s>>
    ELSE LET k == CHOOSE i \in DOMAIN s : s[i] = c /\ \A j \in 1..(i - 1) : s[j] # c
         IN  <<SubSeq(s, 1, k - 1)>> \o Split(Drop(s, k), c)

\* re.sub(r"\D", "", s)
RECURSIVE DigitsOf(_)
DigitsOf(s) ==
    IF s = <<>> THEN <<>>
    ELSE (IF IsDigit(s[1]) THEN <<s[1]>> ELSE <<>>) \o DigitsOf(Tail(s))

\* int(s) for a text of digits
IntOf(s) == DigitsToInt([i \in DOMAIN s |-> DigitVal(s[i])])

\* str(n) for n >= 0
RECURSIVE StrOf(_)
StrOf(n) == IF n < 10 THEN <<DigitChars[n + 1]>> ELSE StrOf(n \div 10) \o <<DigitChars[(n % 10) + 1]>>

\* re.match(r"^\d{1,2}:\d{2}$", s), line 74.
TimeOk(s) == MatchTime(s) > 0 /\ MatchTime(s) = Len(s)

\* parse_signal returned None.
NoSignal == [ok |-> FALSE, time |-> <<>>, pair |-> <<>>, direction |-> <<>>, expiry |-> 0]

Call == <<"C", "A", "L", "L">>
Put == <<"P", "U", "T">>

\* The direction test of line 78.
DirectionOk(d) == d \in {Call, Put}

\* parse_signal(line), lines 53-87.
parse_signal(line) ==
    LET parts == Split(clean_signal_line(line), ";")
    IN  IF Len(parts) < 4 THEN NoSignal
        ELSE LET time_str == Strip(parts[1])
                 pair == Replace(Upper(parts[2]), "/", <<>>)
                 direction == Upper(parts[3])
                 expiry_raw == parts[4]
             IN  IF DigitsOf(expiry_raw) = <<>> THEN NoSignal
                 ELSE IF ~TimeOk(time_str) THEN NoSignal
                 ELSE IF ~DirectionOk(direction) THEN NoSignal
                 ELSE [ok |-> TRUE, time |-> time_str, pair |-> pair,
                       direction |-> direction, expiry |-> IntOf(DigitsOf(expiry_raw))]

\* The compact form of a signal: HH:MM;PAIR;DIRECTION;EXPIRY.
Serialize(sig) ==
    sig.time \o <<";">> \o sig.pair \o <<";">> \o sig.direction \o <<";">> \o StrOf(sig.expiry)

\* ---- lines given to parse_signal
TimeForms == { <<"0", "8", ":", "0", "5">>, <<"O", "8", ":", "O", "5">>, <<"0", "3", ":", "4", "0">>, <<"9", ":", "1", "5">> }
PairForms == { <<"G", "B", "P", "U", "S", "D">>, <<"E", "U", "R", "A", "U", "D">>, <<"e", "u", "r", "/", "u", "s", "d">>, <<"E", "U", "R", "U", "S", "D", "-", "O", "T", "C">>, <<"F", "O", "O", "1">>, <<>> }
DirectionForms == { <<"C", "A", "L", "L">>, <<"P", "U", "T">>, <<"p", "u", "t">>, <<"B", "U", "Y">> }
ExpiryForms == { <<"1", "5">>, <<"1">>, <<"5", "m">>, <<"M", "5">>, <<"0">>, <<"x">> }
\* How the fields are separated, and what is put around the line.
Separators == { <<";">>, <<" ", "i", " ">>, <<" ">>, <<",">> }
Paddings == { <<>>, <<" ">> }

\* A line of four fields, or of three (the expiry left out).
Line(t, p, d, e, sep, pad, four) ==
    pad \o t \o sep \o p \o sep \o d \o (IF four THEN sep \o e ELSE <<>>) \o pad

Lines ==
    { Line(t, p, d, e, sep, pad, four) :
        t \in TimeForms, p \in PairForms, d \in DirectionForms, e \in ExpiryForms,
        sep \in Separators, pad \in Paddings, four \in BOOLEAN }

PsInit ==
    /\ ps_pc = "input"
    /\ ps_line \in Lines
    /\ ps_out = NoSignal
    /\ ps_back = NoSignal

\* sig = parse_signal(line)
ParseSignal ==
    /\ ps_pc = "input"
    /\ ps_out' = parse_signal(ps_line)
    /\ ps_pc' = "parsed"
    /\ UNCHANGED <<ps_line, ps_back>>

\* The signal written back in compact form and parsed again.
Reparse ==
    /\ ps_pc = "parsed"
    /\ ps_out.ok
    /\ ps_back' = parse_signal(Serialize(ps_out))
    /\ ps_pc' = "reparsed"
    /\ UNCHANGED <<ps_line, ps_out>>

PsNext == ParseSignal \/ Reparse

\* --------------------------------------------------------- timezone_utils
\* Instants are whole seconds counted from the midnight that began today.
GraceSeconds == 1800
DaySeconds == 86400
HourSeconds == 3600
MinuteSeconds == 60
AM == <<"A", "M">>
PM == <<"P", "M">>

\* Lines 84-87: the hour of the 24-hour clock.
Hour24(hour, am_pm) ==
    IF Upper(am_pm) = PM /\ hour # 12 THEN hour + 12
    ELSE IF Upper(am_pm) = AM /\ hour = 12 THEN 0
    ELSE hour

\* current.replace(hour=hour, minute=minute, second=0, microsecond=0), line 91.
TodayAt(hour, minute, am_pm) == Hour24(hour, am_pm) * HourSeconds + minute * MinuteSeconds

\* Line 97: the entry is kept today.
StillToday(delta) == delta < GraceSeconds

\* parse_time_12h(hour, minute, am_pm) called when now() = current, lines 84-104.
parse_time_12h(hour, minute, am_pm, current) ==
    LET entry_time == TodayAt(hour, minute, am_pm)
    IN  IF entry_time < current
        THEN IF StillToday(current - entry_time) THEN entry_time ELSE entry_time + DaySeconds
        ELSE entry_time

\* ---- the calls of parse_time_12h
Hours12 == 1..12
MinuteForms == {0, 30, 59}
MeridiemForms == {AM, PM, <<"p", "m">>}
\* How far now() is from the entry time of today, in seconds.
ClockOffsets == {0 - 7200, 0 - 1, 0, 1, 1799, 1800, 1801, 7200}

TzInit ==
    /\ tz_pc = "input"
    /\ tz_hour \in Hours12
    /\ tz_minute \in MinuteForms
    /\ tz_am_pm \in MeridiemForms
    /\ tz_now \in { n \in { TodayAt(tz_hour, tz_minute, tz_am_pm) + o : o \in ClockOffsets } :
                        n >= 0 /\ n < DaySeconds }
    /\ tz_entry = 0

\* entry_time = parse_time_12h(hour, minute, am_pm)
ParseTime12h ==
    /\ tz_pc = "input"
    /\ tz_entry' = parse_time_12h(tz_hour, tz_minute, tz_am_pm, tz_now)
    /\ tz_pc' = "resolved"
    /\ UNCHANGED <<tz_now, tz_hour, tz_minute, tz_am_pm>>

TzNext == ParseTime12h

\* ------------------------------------------- the block form of a signal
\* The regular expressions are read at positions of the text s.
KwTrade == <<"T", "r", "a", "d", "e", ":">>
KwTimer == <<"T", "I", "M", "E", "R", ":">>
KwMinutes == <<"M", "I", "N", "U", "T", "E", "S">>
KwMinute == <<"M", "I", "N", "U", "T", "E">>
KwEntry == <<"E", "N", "T", "R", "Y", ":">>
KwDirection == <<"D", "I", "R", "E", "C", "T", "I", "O", "N", ":">>
KwSell == <<"S", "E", "L", "L">>
KwBuy == <<"B", "U", "Y">>
KwOtc == <<"O", "T", "C">>
KwOtcParen == <<"(", "O", "T", "C", ")">>

\* pat is at position i of s.
At(s, i, pat) ==
    /\ i >= 1
    /\ i + Len(pat) - 1 <= Len(s)
    /\ \A k \in 1..Len(pat) : s[i + k - 1] = pat[k]

\* The same under re.IGNORECASE.
AtCI(s, i, pat) ==
    /\ i >= 1
    /\ i + Len(pat) - 1 <= Len(s)
    /\ \A k \in 1..Len(pat) : UpperOf(s[i + k - 1]) = UpperOf(pat[k])

\* pat in s
Contains(s, pat) == \E i \in 1..Len(s) : At(s, i, pat)

MinOf(S) == CHOOSE x \in S : \A y \in S : x <= y
MaxOf(S) == CHOOSE x \in S : \A y \in S : x >= y
\* The least position of S, 0 when there is none.
First(S) == IF S = {} THEN 0 ELSE MinOf(S)

\* \s* from position i: the position after it.
SkipSpaceAt(s, i) ==
    MinOf({ j \in i..(Len(s) + 1) : j = Len(s) + 1 \/ ~IsSpace(s[j]) })

\* \d+ from position i: the position after it (i when no digit is there).
DigitsEnd(s, i) ==
    MinOf({ j \in i..(Len(s) + 1) : j = Len(s) + 1 \/ ~IsDigit(s[j]) })

\* \d{1,2}:\d{2} at position i: the length matched, 0 for no match.
TimeLenAt(s, i) == IF i > Len(s) THEN 0 ELSE MatchTime(SubSeq(s, i, Min(Len(s), i + 4)))

\* [A-Z]{3}/[A-Z]{3} at position j.
PairAt(s, j) ==
    /\ j >= 1
    /\ j + 6 <= Len(s)
    /\ \A k \in {0, 1, 2, 4, 5, 6} : IsLetter(s[j + k])
    /\ s[j + 3] = "/"

\* No line break in positions a..b.
SameLine(s, a, b) == \A k \in a..b : s[k] # "\n"

\* ---- signal_parser.parse_signals_from_text, block_pattern (lines 103-106)
\* Direction:\s*(SELL|BUY) at d.
TextDirectionAt(s, d) ==
    /\ AtCI(s, d, KwDirection)
    /\ \/ AtCI(s, SkipSpaceAt(s, d + Len(KwDirection)), KwSell)
       \/ AtCI(s, SkipSpaceAt(s, d + Len(KwDirection)), KwBuy)

\* .*?Direction:\s*(SELL|BUY) from position from.
TextDirectionPos(s, from) == First({ d \in from..Len(s) : TextDirectionAt(s, d) })

\* Entry:\s*(\d{1,2}:\d{2})\s*(AM|PM)? at e: where the time starts, where
\* the meridiem would start, and the position after the whole of it.
TextTimeStart(s, e) == SkipSpaceAt(s, e + Len(KwEntry))
TextMeridiemStart(s, e) ==
    SkipSpaceAt(s, TextTimeStart(s, e) + TimeLenAt(s, TextTimeStart(s, e)))
TextHasMeridiem(s, e) ==
    AtCI(s, TextMeridiemStart(s, e), AM) \/ AtCI(s, TextMeridiemStart(s, e), PM)
TextEntryEnd(s, e) ==
    IF TextHasMeridiem(s, e) THEN TextMeridiemStart(s, e) + 2
    ELSE TextTimeStart(s, e) + TimeLenAt(s, TextTimeStart(s, e))

TextEntryAt(s, e) ==
    /\ AtCI(s, e, KwEntry)
    /\ TimeLenAt(s, TextTimeStart(s, e)) > 0
    /\ TextDirectionPos(s, TextEntryEnd(s, e)) # 0

\* .*?Entry: ... from position from.
TextEntryPos(s, from) == First({ e \in from..Len(s) : TextEntryAt(s, e) })

\* Timer:\s*(\d+)\s*minutes at t: where the digits start and the position
\* after the word.
TextDigitsStart(s, t) == SkipSpaceAt(s, t + Len(KwTimer))
TextUnitStart(s, t) == SkipSpaceAt(s, DigitsEnd(s, TextDigitsStart(s, t)))
TextTimerAt(s, t) ==
    /\ AtCI(s, t, KwTimer)
    /\ DigitsEnd(s, TextDigitsStart(s, t)) > TextDigitsStart(s, t)
    /\ AtCI(s, TextUnitStart(s, t), KwMinutes)
    /\ TextEntryPos(s, TextUnitStart(s, t) + Len(KwMinutes)) # 0

\* .*?Timer: ... from position from.
TextTimerPos(s, from) == First({ t \in from..Len(s) : TextTimerAt(s, t) })

\* \s*(?:.*?)?(\(OTC\))? after the pair at j: the tag is taken only where
\* the lazy group is empty, right after the white space.
TextOtc(s, j) == AtCI(s, SkipSpaceAt(s, j + 7), KwOtcParen)
TextAfterOtc(s, j) ==
    IF TextOtc(s, j) THEN SkipSpaceAt(s, j + 7) + Len(KwOtcParen) ELSE SkipSpaceAt(s, j + 7)

\* Trade:\s*(?:.*\s+)?([A-Z]{3}/[A-Z]{3}) with Trade: at i: the positions the
\* pair can take such that the rest of the pattern matches.
TextPairs(s, i) ==
    { j \in (i + Len(KwTrade))..Len(s) :
        /\ PairAt(s, j)
        /\ (j = i + Len(KwTrade) \/ IsSpace(s[j - 1]))
        /\ TextTimerPos(s, TextAfterOtc(s, j)) # 0 }

\* The pattern matches with Trade: at i.
TextBlockAt(s, i) == AtCI(s, i, KwTrade) /\ TextPairs(s, i) # {}

\* Lines 112-114: the pair of the signal.
TextPairName(pair, otc) ==
    IF otc /\ ~Contains(Replace(pair, "/", <<>>), KwOtc)
    THEN Replace(pair, "/", <<>>) \o <<"-">> \o KwOtc
    ELSE Replace(pair, "/", <<>>)

\* "%02d" % n
Pad2(n) == IF n < 10 THEN <<"0">> \o StrOf(n) ELSE StrOf(n)

\* The hour and the minute of a text H:MM or HH:MM.
HourOf(t) == IntOf(SubSeq(t, 1, Len(t) - 3))
MinuteOf(t) == IntOf(SubSeq(t, Len(t) - 1, Len(t)))

\* datetime.strptime(raw + " " + meridiem, "%I:%M %p") raises ValueError.
StrptimeFails(raw_time) ==
    HourOf(raw_time) \notin 1..12 \/ MinuteOf(raw_time) > 59

\* Lines 122-129: the time of the signal.
TextTime(raw_time, meridiem) ==
    IF meridiem = <<>> THEN raw_time
    ELSE Pad2((HourOf(raw_time) % 12) + (IF Upper(meridiem) = PM THEN 12 ELSE 0))
            \o <<":">> \o Pad2(MinuteOf(raw_time))

\* Every direction word gives CALL.
BlockDirectionAlwaysCall(word) == Call

\* Line 131 (and channel_signal_parser.py line 81): SELL is PUT, BUY is CALL.
BlockDirection(word) == IF Upper(word) = KwSell THEN Put ELSE Call

\* The groups of a match of block_pattern and the position after it, given
\* where the pair (j), Timer: (t), Entry: (e) and the direction word (w) are.
TextGroups(s, j, t, e, w, word) ==
    [pair |-> SubSeq(s, j, j + 6),
     otc |-> TextOtc(s, j),
     timer |-> SubSeq(s, TextDigitsStart(s, t), DigitsEnd(s, TextDigitsStart(s, t)) - 1),
     raw_time |-> SubSeq(s, TextTimeStart(s, e),
                         TextTimeStart(s, e) + TimeLenAt(s, TextTimeStart(s, e)) - 1),
     meridiem |-> IF TextHasMeridiem(s, e)
                  THEN SubSeq(s, TextMeridiemStart(s, e), TextMeridiemStart(s, e) + 1)
                  ELSE <<>>,
     direction |-> word,
     end |-> w + Len(word)]

\* (SELL|BUY) at w.
TextWordAt(s, w) == IF AtCI(s, w, KwSell) THEN SubSeq(s, w, w + 3) ELSE SubSeq(s, w, w + 2)

TextMatchFromEntry(s, j, t, e) ==
    TextGroups(s, j, t, e,
               SkipSpaceAt(s, TextDirectionPos(s, TextEntryEnd(s, e)) + Len(KwDirection)),
               TextWordAt(s, SkipSpaceAt(s, TextDirectionPos(s, TextEntryEnd(s, e)) + Len(KwDirection))))

TextMatchFromTimer(s, j, t) ==
    TextMatchFromEntry(s, j, t, TextEntryPos(s, TextUnitStart(s, t) + Len(KwMinutes)))

\* The pair is taken as far to the right as the rest of the pattern allows,
\* each later field as far to the left.
TextMatchFromPair(s, j) ==
    TextMatchFromTimer(s, j, TextTimerPos(s, TextAfterOtc(s, j)))

\* The match of block_pattern that starts with Trade: at i.
TextMatch(s, i) == TextMatchFromPair(s, MaxOf(TextPairs(s, i)))

\* Lines 109-141: the signal of one match; none when strptime raises.
TextSignal(m) ==
    IF m.meridiem # <<>> /\ StrptimeFails(m.raw_time) THEN <<>>
    ELSE <<[ok |-> TRUE,
            time |-> TextTime(m.raw_time, m.meridiem),
            pair |-> TextPairName(m.pair, m.otc),
            direction |-> BlockDirection(m.direction),
            expiry |-> IntOf(m.timer)]>>

\* The signals of the match m and of the matches after it.
RECURSIVE BlockSignals(_, _)
BlockSignalsFrom(s, m) == TextSignal(m) \o BlockSignals(s, m.end)

\* block_pattern.findall(text) from position from, and the signals of the
\* matches.
BlockSignals(s, from) ==
    LET I == { i \in from..Len(s) : TextBlockAt(s, i) }
    IN  IF I = {} THEN <<>> ELSE BlockSignalsFrom(s, TextMatch(s, MinOf(I)))

\* re.split(r'(\d{1,2}:\d{2})', text), lines 150-156: each time with the
\* text that follows it up to the next time.
RECURSIVE CompactChunks(_, _)
CompactChunks(s, from) ==
    LET X == { x \in from..Len(s) : TimeLenAt(s, x) > 0 }
    IN  IF X = {} THEN <<>>
        ELSE LET x == MinOf(X)
                 n == TimeLenAt(s, x)
                 Y == { y \in (x + n)..Len(s) : TimeLenAt(s, y) > 0 }
                 stop == IF Y = {} THEN Len(s) + 1 ELSE MinOf(Y)
             IN  <<[line |-> SubSeq(s, x, stop - 1), body |-> SubSeq(s, x + n, stop - 1)]>>
                    \o CompactChunks(s, stop)

\* Lines 154-169.
RECURSIVE CompactSignalsOf(_)
CompactSignalsOf(chunks) ==
    IF chunks = <<>> THEN <<>>
    ELSE (IF ~Contains(chunks[1].body, KwTrade) /\ parse_signal(chunks[1].line).ok
          THEN <<parse_signal(chunks[1].line)>>
          ELSE <<>>) \o CompactSignalsOf(Tail(chunks))

CompactSignals(s) == CompactSignalsOf(CompactChunks(s, 1))

\* f.readlines(), line 185: the lines with their line breaks.
RECURSIVE ReadLines(_)
ReadLines(s) ==
    IF s = <<>> THEN <<>>
    ELSE IF Count(s, "\n") = 0 THEN <<s>>
    ELSE LET k == CHOOSE i \in DOMAIN s : s[i] = "\n" /\ \A j \in 1..(i - 1) : s[j] # "\n"
         IN  <<SubSeq(s, 1, k)>> \o ReadLines(Drop(s, k))

\* Lines 186-189.
RECURSIVE SignalsOfLines(_)
SignalsOfLines(lines) ==
    IF lines = <<>> THEN <<>>
    ELSE (IF parse_signal(lines[1]).ok THEN <<parse_signal(lines[1])>> ELSE <<>>)
            \o SignalsOfLines(Tail(lines))

\* parse_signals_from_file(filepath) for a file that holds text, lines 178-193.
parse_signals_from_file(text) == SignalsOfLines(ReadLines(text))

\* parse_signals_from_text(text), lines 94-174.
FirstOrElse(signals, text) == IF signals # <<>> THEN signals ELSE CompactSignals(text)

parse_signals_from_text(text) == FirstOrElse(BlockSignals(text, 1), text)

\* ---- channel_signal_parser.parse_channel_signal
\* \w
IsWord(c) == IsLetter(c) \/ IsDigit(c) \/ c = "_"

\* (\(OTC\)|OTC)\b at k.
ChannelOtcAt(s, k) ==
    \/ AtCI(s, k, KwOtcParen) /\ k + 5 <= Len(s) /\ IsWord(s[k + 5])
    \/ AtCI(s, k, KwOtc) /\ (k + 3 > Len(s) \/ ~IsWord(s[k + 3]))

\* Trade:\s*.*?([A-Z]{3})/([A-Z]{3}) with Trade: at i: the positions of the
\* pair, on the line where the white space after Trade: ends.
ChannelPairs(s, i) ==
    { j \in SkipSpaceAt(s, i + Len(KwTrade))..Len(s) :
        PairAt(s, j) /\ SameLine(s, SkipSpaceAt(s, i + Len(KwTrade)), j - 1) }

\* ... .*?(\(OTC\)|OTC)\b after the pair at j, on the same line.
ChannelOtcAfter(s, j) ==
    \E k \in (j + 7)..Len(s) : ChannelOtcAt(s, k) /\ SameLine(s, j + 7, k - 1)

\* re.search of line 31: the position of the pair, 0 for no match.
ChannelOtcPair(s) ==
    LET I == { i \in 1..Len(s) :
                 AtCI(s, i, KwTrade) /\ \E j \in ChannelPairs(s, i) : ChannelOtcAfter(s, j) }
    IN  IF I = {} THEN 0
        ELSE MinOf({ j \in ChannelPairs(s, MinOf(I)) : ChannelOtcAfter(s, j) })

\* re.search of line 40: the position of the pair, 0 for no match.
ChannelPlainPair(s) ==
    LET I == { i \in 1..Len(s) : AtCI(s, i, KwTrade) /\ ChannelPairs(s, i) # {} }
    IN  IF I = {} THEN 0 ELSE MinOf(ChannelPairs(s, MinOf(I)))

\* Lines 31-49: the pair of the signal, empty when no pair is found.
ChannelPairName(s) ==
    IF ChannelOtcPair(s) # 0
    THEN Upper(SubSeq(s, ChannelOtcPair(s), ChannelOtcPair(s) + 2))
            \o Upper(SubSeq(s, ChannelOtcPair(s) + 4, ChannelOtcPair(s) + 6))
            \o <<"-">> \o KwOtc
    ELSE IF ChannelPlainPair(s) # 0
    THEN Upper(SubSeq(s, ChannelPlainPair(s), ChannelPlainPair(s) + 2))
            \o Upper(SubSeq(s, ChannelPlainPair(s) + 4, ChannelPlainPair(s) + 6))
    ELSE <<>>

\* re.search(r'Timer:\s*(\d+)\s*minute'), line 52: the position, 0 for no match.
ChannelTimerPos(s) ==
    First({ t \in 1..Len(s) :
              /\ AtCI(s, t, KwTimer)
              /\ DigitsEnd(s, TextDigitsStart(s, t)) > TextDigitsStart(s, t)
              /\ AtCI(s, TextUnitStart(s, t), KwMinute) })

\* re.search(r'Entry:\s*(\d{1,2}):(\d{2})\s*(AM|PM)'), line 60.
ChannelEntryPos(s) ==
    First({ e \in 1..Len(s) :
              /\ AtCI(s, e, KwEntry)
              /\ TimeLenAt(s, TextTimeStart(s, e)) > 0
              /\ TextHasMeridiem(s, e) })

\* re.search(r'Direction:\s*(BUY|SELL)'), line 73.
ChannelDirectionPos(s) == First({ d \in 1..Len(s) : TextDirectionAt(s, d) })

\* parse_channel_signal returned None.
NoChannelSignal == [ok |-> FALSE, time |-> 0, pair |-> <<>>, direction |-> <<>>, expiry |-> 0]

\* Lines 57-91, given where Timer: (t), Entry: (e) and Direction: (d) are
\* and the texts of the time and of the meridiem.
ChannelSignal(s, current, t, e, d, raw_time, am_pm) ==
    \* current.replace(hour=..., minute=...) raises ValueError
    IF Hour24(HourOf(raw_time), am_pm) > 23 \/ MinuteOf(raw_time) > 59
    THEN NoChannelSignal
    ELSE IF d = 0 THEN NoChannelSignal
    ELSE [ok |-> TRUE,
          time |-> parse_time_12h(HourOf(raw_time), MinuteOf(raw_time), am_pm, current),
          pair |-> ChannelPairName(s),
          direction |-> BlockDirection(
                            IF AtCI(s, SkipSpaceAt(s, d + Len(KwDirection)), KwSell)
                            THEN KwSell ELSE KwBuy),
          expiry |-> IntOf(SubSeq(s, TextDigitsStart(s, t),
                                  DigitsEnd(s, TextDigitsStart(s, t)) - 1))]

ChannelSignalAt(s, current, t, e) ==
    ChannelSignal(s, current, t, e, ChannelDirectionPos(s),
                  SubSeq(s, TextTimeStart(s, e),
                         TextTimeStart(s, e) + TimeLenAt(s, TextTimeStart(s, e)) - 1),
                  Upper(SubSeq(s, TextMeridiemStart(s, e), TextMeridiemStart(s, e) + 1)))

\* parse_channel_signal(message_text) called when now() = current, lines 27-96.
parse_channel_signal(s, current) ==
    IF ChannelPairName(s) = <<>> THEN NoChannelSignal
    ELSE IF ChannelTimerPos(s) = 0 THEN NoChannelSignal
    ELSE IF ChannelEntryPos(s) = 0 THEN NoChannelSignal
    ELSE ChannelSignalAt(s, current, ChannelTimerPos(s), ChannelEntryPos(s))

\* ---- the texts
NL == <<"\n">>
Header == <<"N", "E", "W", " ", "S", "I", "G", "N", "A", "L", "!", "\n">>
\* What stands between "Trade:" and the pair.
BeforePair == { <<" ">>, <<" ", "#", " ">> }
BlockPairs == { <<"E", "U", "R", "/", "U", "S", "D">>, <<"A", "U", "D", "/", "J", "P", "Y">> }
\* What follows the pair on the trade line.
AfterPair == { <<>>, <<" ", "(", "O", "T", "C", ")">>, <<" ", "#", " ", "(", "O", "T", "C", ")">>, <<" ", "O", "T", "C">>, <<"\n", "(", "O", "T", "C", ")">> }
TimerForms == { <<"5", " ", "m", "i", "n", "u", "t", "e", "s">>, <<"1", " ", "m", "i", "n", "u", "t", "e", "s">>, <<"1", " ", "m", "i", "n", "u", "t", "e">> }
EntryForms == { <<"2", ":", "3", "6", " ", "P", "M">>, <<"1", "2", ":", "3", "6", " ", "A", "M">>, <<"1", "4", ":", "3", "6">> }
DirectionWords == { <<"S", "E", "L", "L", " ", "#">>, <<"B", "U", "Y", " ", "#">>, <<"b", "u", "y">>, <<"H", "O", "L", "D">> }

\* One message of the channel.
Block(pre, pair, post, timer, entry, dir) ==
    Header \o <<"*", " ", "T", "r", "a", "d", "e", ":">> \o pre \o pair \o post \o NL
           \o <<"*", " ", "T", "i", "m", "e", "r", ":", " ">> \o timer \o NL
           \o <<"*", " ", "E", "n", "t", "r", "y", ":", " ">> \o entry \o NL
           \o <<"*", " ", "D", "i", "r", "e", "c", "t", "i", "o", "n", ":", " ">> \o dir

Blocks ==
    { Block(pre, pair, post, timer, entry, dir) :
        pre \in BeforePair, pair \in BlockPairs, post \in AfterPair,
        timer \in TimerForms, entry \in EntryForms, dir \in DirectionWords }

\* The chunks a longer text is put together from: two messages, two compact
\* lines, and three lines that are no signal.
SellBlock == Block(<<" ">>, <<"E", "U", "R", "/", "U", "S", "D">>, <<" ", "(", "O", "T", "C", ")">>, <<"5", " ", "m", "i", "n", "u", "t", "e", "s">>, <<"2", ":", "3", "6", " ", "P", "M">>, <<"S", "E", "L", "L", " ", "#">>)
BuyBlock == Block(<<" ", "#", " ">>, <<"A", "U", "D", "/", "J", "P", "Y">>, <<>>, <<"1", " ", "m", "i", "n", "u", "t", "e", "s">>, <<"1", "2", ":", "3", "6", " ", "A", "M">>, <<"B", "U", "Y", " ", "#">>)
CompactA == <<"0", "9", ":", "1", "5", ";", "E", "U", "R", "U", "S", "D", ";", "C", "A", "L", "L", ";", "5">>
CompactB == <<"1", "0", ":", "3", "0", ";", "G", "B", "P", "J", "P", "Y", ";", "P", "U", "T", ";", "1">>
\* A line that is no signal and holds a digit.
NoteLine == <<"l", "o", "t", " ", "7">>
Chunks == { SellBlock, BuyBlock, CompactA, CompactB, <<"n", "o", "t", " ", "a", " ", "s", "i", "g", "n", "a", "l">>, <<"1", "1", ":", "0", "0", ";", "U", "S", "D", "J", "P", "Y", ";", "B", "U", "Y", ";", "5">>,
            NoteLine }

\* Texts of two or three different chunks, one per line.
Batches ==
    { p[1] \o NL \o p[2] :
        p \in { q \in Chunks \X Chunks : q[1] # q[2] } } \cup
    { p[1] \o NL \o p[2] \o NL \o p[3] :
        p \in { q \in Chunks \X Chunks \X Chunks :
                    q[1] # q[2] /\ q[1] # q[3] /\ q[2] # q[3] } }

Texts == Blocks \cup Chunks \cup Batches

\* The instants of the calls, in seconds: 14:00:00 and 15:06:00.
CallInstants == { 14 * HourSeconds, 15 * HourSeconds + 6 * MinuteSeconds }

TxInit ==
    /\ tx_pc = "input"
    /\ tx_text \in Texts
    /\ tx_now \in CallInstants
    /\ tx_signals = <<>>
    /\ tx_channel = NoChannelSignal
    /\ tx_file = <<>>

\* signals = parse_signals_from_text(text)
ParseSignalsFromText ==
    /\ tx_pc = "input"
    /\ tx_signals' = parse_signals_from_text(tx_text)
    /\ tx_pc' = "text"
    /\ UNCHANGED <<tx_text, tx_now, tx_channel, tx_file>>

\* signal = parse_channel_signal(message_text)
ParseChannelSignal ==
    /\ tx_pc = "text"
    /\ tx_channel' = parse_channel_signal(tx_text, tx_now)
    /\ tx_pc' = "done"
    /\ UNCHANGED <<tx_text, tx_now, tx_signals, tx_file>>

\* signals = parse_signals_from_file(filepath), the file holding the text
ParseSignalsFromFile ==
    /\ tx_pc = "done"
    /\ tx_file' = parse_signals_from_file(tx_text)
    /\ tx_pc' = "filed"
    /\ UNCHANGED <<tx_text, tx_now, tx_signals, tx_channel>>

TxNext == ParseSignalsFromText \/ ParseChannelSignal \/ ParseSignalsFromFile

\* ------------------------------------------------------ ensure_connection
\* What one api._connect() can do: raise, return with the API still not
\* connected, return with it connected.
ConnectOutcomes == {"raised", "unconnected", "connected"}

EcInit ==
    /\ api_connected = FALSE
    /\ ec_pc = "idle"
    /\ ec_log = <<>>
    /\ ec_calls = 0

\* A loop that gives up one attempt early.
EcExhaustedEarly(attempts) == attempts >= MaxConnectAttempts - 1

\* The attempts of the call are used up.
EcExhausted(attempts) == attempts >= MaxConnectAttempts

\* ensure_connection() is called while the API is not connected.
EnsureConnection ==
    /\ ec_pc \in {"idle", "returned", "raised"}
    /\ ~api_connected
    /\ ec_calls < MaxEnsureCalls
    /\ ec_calls' = ec_calls + 1
    /\ ec_log' = <<>>
    /\ ec_pc' = "trying"
    /\ UNCHANGED api_connected

\* One api._connect() of the call, and what the loop does with it: return
\* when the API is connected, raise ConnectionError when the attempts are
\* used up, wait before the next attempt otherwise.
ConnectAttempt(o) ==
    /\ ec_pc = "trying"
    /\ ec_log' = Append(ec_log, o)
    /\ api_connected' = (o = "connected")
    /\ ec_pc' = IF o = "connected" THEN "returned"
                ELSE IF EcExhausted(Len(ec_log) + 1) THEN "raised"
                ELSE "backoff"
    /\ UNCHANGED ec_calls

\* The wait between two attempts is over.
Backoff ==
    /\ ec_pc = "backoff"
    /\ ec_pc' = "trying"
    /\ UNCHANGED <<api_connected, ec_log, ec_calls>>

\* The connection is lost after a call that had established it.
ConnectionLost ==
    /\ ec_pc = "returned"
    /\ api_connected
    /\ api_connected' = FALSE
    /\ UNCHANGED <<ec_pc, ec_log, ec_calls>>

EcNext ==
    \/ EnsureConnection
    \/ \E o \in ConnectOutcomes : ConnectAttempt(o)
    \/ Backoff
    \/ ConnectionLost

\* ------------------------------------------------- first_main.run_trade
\* The comparison of line 81 with its sign turned.
FmIsWinFlipped(o) == o.ok /\ o.pnl < 0

\* if pnl_ok and pnl > 0 (first_main.py line 81); `and` short-circuits.
FmIsWin(o) == o.ok /\ o.pnl > 0

\* A stake that grows by one base stake per gale instead of doubling.
FmEscalateLinear(a) == a + fm_amount

\* current_amount *= 2 (line 95).
FmEscalate(a) == a * 2

\* range(max_gales) in place of range(max_gales + 1).
FmMoreGalesOffByOne(gale, max_gales) == gale + 1 < max_gales

\* for gale in range(max_gales + 1) (line 64): another iteration follows gale.
FmMoreGales(gale, max_gales) == gale + 1 < max_gales + 1

FmInit ==
    /\ fm_pc = "idle"
    /\ fm_amount = 0
    /\ fm_max_gales = 0
    /\ fm_current_amount = 0
    /\ fm_gale = 0
    /\ fm_orders = <<>>
    /\ fm_exit = "none"

\* run_trade(api, asset, direction, expiry, amount, max_gales): line 63 and
\* the first test of range(max_gales + 1).
FmCall(amount, max_gales) ==
    /\ fm_pc = "idle"
    /\ fm_amount' = amount
    /\ fm_max_gales' = max_gales
    /\ fm_current_amount' = amount
    /\ fm_gale' = 0
    /\ fm_pc' = IF FmMoreGales(-1, max_gales) THEN "place" ELSE "returned"
    /\ fm_exit' = IF FmMoreGales(-1, max_gales) THEN "none" ELSE "LOSS"
    /\ UNCHANGED fm_orders

\* Orders fired without waiting for their outcome.
FmPlaceOkNoWait ==
    /\ fm_pc = "place"
    /\ fm_orders' = Append(fm_orders, [stake |-> fm_current_amount, ok |-> FALSE, pnl |-> None, resolved |-> FALSE])
    /\ fm_current_amount' = FmEscalate(fm_current_amount)
    /\ IF FmMoreGales(fm_gale, fm_max_gales)
       THEN fm_gale' = fm_gale + 1 /\ fm_pc' = "place" /\ fm_exit' = fm_exit
       ELSE fm_gale' = fm_gale /\ fm_pc' = "returned" /\ fm_exit' = "LOSS"
    /\ UNCHANGED <<fm_amount, fm_max_gales>>

\* api.execute_digital_option_trade answered (True, order_id): lines 66-77.
FmPlaceOk ==
    /\ fm_pc = "place"
    /\ fm_orders' = Append(fm_orders, [stake |-> fm_current_amount, ok |-> FALSE, pnl |-> None, resolved |-> FALSE])
    /\ fm_pc' = "wait"
    /\ UNCHANGED <<fm_amount, fm_max_gales, fm_current_amount, fm_gale, fm_exit>>

\* A rejected order handled like a lost one: the stake is doubled first.
FmPlaceRejectedEscalates ==
    /\ fm_pc = "place"
    /\ fm_pc' = "returned"
    /\ fm_exit' = "FAILED"
    /\ fm_current_amount' = fm_current_amount * 2
    /\ UNCHANGED <<fm_amount, fm_max_gales, fm_gale, fm_orders>>

\* api.execute_digital_option_trade answered (False, _): lines 71-73.
FmPlaceRejected ==
    /\ fm_pc = "place"
    /\ fm_pc' = "returned"
    /\ fm_exit' = "FAILED"
    /\ UNCHANGED <<fm_amount, fm_max_gales, fm_current_amount, fm_gale, fm_orders>>

\* An api call raised: run_trade has no try, the exception leaves it.
FmRaise ==
    /\ fm_pc \in {"place", "wait"}
    /\ fm_pc' = "returned"
    /\ fm_exit' = "RAISED"
    /\ UNCHANGED <<fm_amount, fm_max_gales, fm_current_amount, fm_gale, fm_orders>>

\* api.get_trade_outcome answered o: lines 78-95, and the loop's next test
\* (line 64) or its fall-through to line 97.
FmOutcome(o) ==
    /\ fm_pc = "wait"
    /\ fm_orders' = [fm_orders EXCEPT ![Len(fm_orders)] =
                        [stake |-> @.stake, ok |-> o.ok, pnl |-> o.pnl, resolved |-> TRUE]]
    /\ IF FmIsWin(o)
       THEN /\ fm_pc' = "returned"
            /\ fm_exit' = "WIN"
            /\ UNCHANGED <<fm_current_amount, fm_gale>>
       ELSE /\ fm_current_amount' = FmEscalate(fm_current_amount)
            /\ IF FmMoreGales(fm_gale, fm_max_gales)
               THEN /\ fm_gale' = fm_gale + 1
                    /\ fm_pc' = "place"
                    /\ fm_exit' = fm_exit
               ELSE /\ fm_gale' = fm_gale
                    /\ fm_pc' = "returned"
                    /\ fm_exit' = "LOSS"
    /\ UNCHANGED <<fm_amount, fm_max_gales>>

FmNext ==
    \/ \E a \in Amounts, g \in GaleValues : FmCall(a, g)
    \/ FmPlaceOk
    \/ FmPlaceRejected
    \/ FmRaise
    \/ \E o \in VenueOutcomes(fm_current_amount) : FmOutcome(o)

\* ---------------------------------------------------------- the engine
Assets == {"EURUSD", "GBPUSD"}
Directions == {"CALL", "PUT"}
BaseStakes == {10}
Runs == 1..NumRuns

engVars == <<ACTIVE_TRADES, states, run>>

IdleRun ==
    [pc |-> "idle", asset |-> "-", direction |-> "-", base |-> 0,
     amount |-> 0, max_gales |-> 0, gale |-> 0, attempts |-> <<>>,
     profit |-> 0, result |-> "none", gales |-> 0, holds |-> FALSE,
     approved |-> TRUE]

EngInit ==
    /\ ACTIVE_TRADES = {}
    /\ states = [a \in {} |-> [level |-> 0]]
    /\ run = [r \in Runs |-> IdleRun]

KeyOf(r) == <<run[r].asset, run[r].direction>>

\* The membership test made on the instrument alone.
GuardDeniesInstrument(key) ==
    suppress_overlapping_signals /\ \E k \in ACTIVE_TRADES : k[1] = key[1]

\* The membership test made with the pair the wrong way round.
GuardDeniesSwapped(key) ==
    suppress_overlapping_signals /\ <<key[2], key[1]>> \in ACTIVE_TRADES

\* The guard with the suppression setting ignored.
GuardDeniesAlways(key) == key \in ACTIVE_TRADES

\* try_acquire answers false: suppression is on and the key is registered.
GuardDenies(key) == suppress_overlapping_signals /\ key \in ACTIVE_TRADES

\* A denied call that removes the key it was denied for.
DeniedReleases(key) == ACTIVE_TRADES \ {key}

\* try_acquire answered false: the registry is left as it was.
Denied(key) == ACTIVE_TRADES

\* A check without the insert: the registry is left as it was.
AcquiredNoInsert(key) == ACTIVE_TRADES

\* try_acquire answered true: the registry with the key in it.
Acquired(key) == ACTIVE_TRADES \cup {key}

\* release(instrument, direction): the registry without the key.
Released(key) == ACTIVE_TRADES \ {key}

\* A resolved outcome with a positive profit is a WIN, any other a LOSS.
IsWin(o) == o.ok /\ o.pnl > 0

\* The stake of the attempt after a LOSS in classic mode.
Escalate(amount) == amount * 2

\* The other accounting convention: only the last attempt's payout.
AccumulateLast(profit, pnl) == pnl

\* total_profit after an attempt that resolved with pnl.
Accumulate(profit, pnl) == profit + pnl

\* What a run that ended with this result hands to its caller: the
\* ExecutionRun (attempts, final result, total profit, gale count); the
\* locals of the call are gone.
Ended(f, result, gales) ==
    [IdleRun EXCEPT !.pc = "done", !.attempts = f.attempts, !.profit = f.profit,
                    !.result = result, !.gales = gales]

\* The last attempt of frame f resolved as outcome with pnl.
Resolve(f, outcome, pnl) ==
    [f EXCEPT !.attempts[Len(f.attempts)] =
        [index |-> @.index, stake |-> @.stake, outcome |-> outcome, pnl |-> pnl]]

\* The entry without its guard.
EntryVerdictNoGuard(key) == IF paused THEN "SKIPPED" ELSE "ADMIT"

\* The entry without its pause check.
EntryVerdictNoPause(key) == IF GuardDenies(key) THEN "SUPPRESSED" ELSE "ADMIT"

\* Steps 1 and 2 of execute(): the entry guard, then the pause guard.
EntryVerdict(key) ==
    IF GuardDenies(key) THEN "SUPPRESSED"
    ELSE IF paused THEN "SKIPPED"
    ELSE "ADMIT"

\* Steps 1-3 of execute(): entry guard, pause guard, stake and attempt budget.
\* No suspension point lies between them.
Execute(r, asset, direction, base) ==
    /\ run[r].pc = "idle"
    /\ IF r = 1 THEN TRUE ELSE run[r - 1].pc # "idle"
    /\ LET key == <<asset, direction>>
           d == get_trade_details(asset, base)
           f == [run[r] EXCEPT !.asset = asset, !.direction = direction, !.base = base]
       IN  IF EntryVerdict(key) # "ADMIT"
           THEN /\ run' = [run EXCEPT ![r] = Ended(f, EntryVerdict(key), 0)]
                /\ ACTIVE_TRADES' = IF EntryVerdict(key) = "SUPPRESSED"
                                    THEN Denied(key) ELSE ACTIVE_TRADES
           ELSE /\ run' = [run EXCEPT ![r] =
                              [f EXCEPT !.pc = "attempt", !.amount = d.amount,
                                        !.max_gales = d.max_gales, !.gale = 0,
                                        !.holds = TRUE]]
                /\ ACTIVE_TRADES' = Acquired(key)
    /\ UNCHANGED <<states, cfgVars, fmVars, auxVars>>

\* Step 4a, the venue accepted the order.
SubmitOk(r) ==
    /\ run[r].pc = "attempt"
    /\ run' = [run EXCEPT ![r].pc = "awaiting",
                          ![r].attempts = Append(@, [index |-> run[r].gale,
                                                     stake |-> run[r].amount,
                                                     outcome |-> "PENDING",
                                                     pnl |-> None])]
    /\ UNCHANGED <<ACTIVE_TRADES, states, cfgVars, fmVars, auxVars>>

\* The run ends with result: ledger update and step 5, the release.
Finish(r, f, result, gales) ==
    /\ run' = [run EXCEPT ![r] = Ended(f, result, gales)]
    /\ states' = update_result(run[r].asset, result)
    /\ ACTIVE_TRADES' = Released(KeyOf(r))
    /\ UNCHANGED <<cfgVars, fmVars, auxVars>>

\* Step 4a, the venue rejected the order.
SubmitRejected(r) ==
    /\ run[r].pc = "attempt"
    /\ Finish(r, run[r], "FAILED", run[r].gale)

\* Steps 4b-4d, the wait for the outcome of the attempt ended with o.
Outcome(r, o) ==
    /\ run[r].pc = "awaiting"
    /\ IF ~o.ok
       THEN Finish(r, Resolve(run[r], "UNKNOWN", None), "NO_DATA", run[r].gale)
       ELSE LET f == [Resolve(run[r], IF IsWin(o) THEN "WIN" ELSE "LOSS", o.pnl)
                        EXCEPT !.profit = Accumulate(@, o.pnl)]
            IN  IF IsWin(o)
                THEN Finish(r, f, "WIN", run[r].gale)
                ELSE IF run[r].gale < run[r].max_gales
                THEN /\ run' = [run EXCEPT ![r] =
                                   [f EXCEPT !.pc = "attempt",
                                             !.amount = Escalate(@),
                                             !.gale = @ + 1]]
                     /\ UNCHANGED <<ACTIVE_TRADES, states, cfgVars, fmVars, auxVars>>
                ELSE Finish(r, f, "LOSS", run[r].gale)

\* ---- strategies.confirm_trade_with_ai, the approval collaborator
Predictions == {0, 1}

\* confirm_trade_with_ai(candles_data, direction): ai_model loaded or not,
\* prepare_features gave no row, predict_signal's answer, an exception.
confirm_trade_with_ai(model, features_empty, prediction, raises) ==
    IF ~model THEN TRUE
    ELSE IF raises THEN TRUE
    ELSE IF features_empty THEN TRUE
    ELSE prediction # 0

\* The collaborator consulted before every attempt of the run.
ApprovalPointEveryAttempt(f) == TRUE

\* The collaborator is consulted before step 4a of the first attempt.
ApprovalPoint(f) == f.gale = 0 /\ f.attempts = <<>>

\* The collaborator answered false: the run is cancelled as SKIPPED.
Disapprove(r) ==
    /\ run[r].pc = "attempt"
    /\ ApprovalPoint(run[r])
    /\ \E m, e, x \in BOOLEAN, p \in Predictions : ~confirm_trade_with_ai(m, e, p, x)
    /\ run' = [run EXCEPT ![r] = [Ended(run[r], "SKIPPED", 0) EXCEPT !.approved = FALSE]]
    /\ states' = update_result(run[r].asset, "SKIPPED")
    /\ ACTIVE_TRADES' = Released(KeyOf(r))
    /\ UNCHANGED <<cfgVars, fmVars, auxVars>>

\* An error path without the cleanup: the guard entry stays.
UnexpectedErrorNoCleanup(r) ==
    /\ run[r].pc \in {"attempt", "awaiting"}
    /\ run' = [run EXCEPT ![r] = Ended(run[r], "ERROR", run[r].gale)]
    /\ UNCHANGED <<ACTIVE_TRADES, states, cfgVars, fmVars, auxVars>>

\* An unexpected error (transport, correlation) while the run is suspended.
UnexpectedError(r) ==
    /\ run[r].pc \in {"attempt", "awaiting"}
    /\ Finish(r, run[r], "ERROR", run[r].gale)

Configure ==
    /\ \/ \E b \in BOOLEAN : SetPaused(b)
       \/ \E g \in CfgGales : SetMaxGales(g)
    /\ UNCHANGED <<engVars, fmVars, auxVars>>

Next ==
    \/ \E r \in Runs, a \in Assets, d \in Directions, b \in BaseStakes : Execute(r, a, d, b)
    \/ \E r \in Runs : SubmitOk(r)
    \/ \E r \in Runs : SubmitRejected(r)
    \/ \E r \in Runs : \E o \in EngineOutcomes(run[r].amount) : Outcome(r, o)
    \/ \E r \in Runs : UnexpectedError(r)
    \/ \E r \in Runs : Disapprove(r)
    \/ Configure

\* No line is being parsed.
PsIdle ==
    /\ ps_pc = "idle"
    /\ ps_line = <<>>
    /\ ps_out = NoSignal
    /\ ps_back = NoSignal

\* parse_time_12h is not being called.
TzIdle ==
    /\ tz_pc = "idle"
    /\ tz_now = 0
    /\ tz_hour = 12
    /\ tz_minute = 0
    /\ tz_am_pm = AM
    /\ tz_entry = 0

\* No text is being parsed.
TxIdle ==
    /\ tx_pc = "idle"
    /\ tx_text = <<>>
    /\ tx_now = 0
    /\ tx_signals = <<>>
    /\ tx_channel = NoChannelSignal
    /\ tx_file = <<>>

AuxInit == LedInit /\ WsInit /\ EcInit /\ ReqInit /\ BcInit /\ PsIdle /\ TzIdle /\ TxIdle

FmStep == FmNext /\ UNCHANGED <<cfgVars, engVars, auxVars>>

Init == FmInit /\ CfgInit /\ EngInit /\ AuxInit
vars == <<fmVars, cfgVars, engVars, auxVars>>
Spec == Init /\ [][Next]_vars
SpecFM == Init /\ [][FmStep]_vars

\* A step of run r after its entry. Every wait of a run is bounded by a
\* timeout, so a run that can take a step takes one.
RunStep(r) ==
    \/ SubmitOk(r)
    \/ SubmitRejected(r)
    \/ \E o \in EngineOutcomes(run[r].amount) : Outcome(r, o)
    \/ UnexpectedError(r)
    \/ Disapprove(r)

FairSpec == Spec /\ \A r \in Runs : WF_vars(RunStep(r))

\* ---- the entry guard on its own: classic runs under a configuration that
\* is not changed, enough of them for two to meet a key that is held
GuardRuns == 1..MaxGuardRuns

GuardInit ==
    /\ FmInit /\ AuxInit
    /\ ACTIVE_TRADES = {}
    /\ states = [a \in {} |-> [level |-> 0]]
    /\ run = [r \in GuardRuns |-> IdleRun]
    /\ paused = FALSE
    /\ suppress_overlapping_signals \in BOOLEAN
    /\ smart_martingale = FALSE
    /\ max_martingale_gales = 0
    /\ martingale_multiplier = 2

GuardNext ==
    \/ \E r \in GuardRuns, a \in Assets, d \in Directions, b \in BaseStakes : Execute(r, a, d, b)
    \/ \E r \in GuardRuns : SubmitOk(r)
    \/ \E r \in GuardRuns : SubmitRejected(r)
    \/ \E r \in GuardRuns : \E o \in EngineOutcomes(run[r].amount) : Outcome(r, o)
    \/ \E r \in GuardRuns : UnexpectedError(r)
    \/ \E r \in GuardRuns : Disapprove(r)

SpecGuard == GuardInit /\ [][GuardNext]_vars

\* ---- the ledger on its own, under any sequence of calls
LedgerInit ==
    /\ FmInit /\ EngInit /\ AuxInit
    /\ paused = FALSE
    /\ suppress_overlapping_signals = TRUE
    /\ smart_martingale \in BOOLEAN
    /\ max_martingale_gales \in LedgerGales
    /\ martingale_multiplier \in Multipliers

LedgerNext ==
    \/ /\ \E a \in Assets, b \in BaseStakes : ReadLedger(a, b)
       /\ UNCHANGED <<fmVars, cfgVars, ACTIVE_TRADES, run, wsVars, ecVars, reqVars, bcVars, psVars, tzVars, txVars>>
    \/ /\ \E a \in Assets, res \in LedgerResults : UpdateLedger(a, res)
       /\ UNCHANGED <<fmVars, cfgVars, ACTIVE_TRADES, run, wsVars, ecVars, reqVars, bcVars, psVars, tzVars, txVars>>
    \/ /\ \E g \in LedgerGales : SetMaxGales(g)
       /\ UNCHANGED <<fmVars, engVars, auxVars>>

SpecLedger == LedgerInit /\ [][LedgerNext]_vars

\* ---- the ledger under a configuration that is not changed
CeilingNext ==
    \/ /\ \E a \in Assets, b \in BaseStakes : ReadLedger(a, b)
       /\ UNCHANGED <<fmVars, cfgVars, ACTIVE_TRADES, run, wsVars, ecVars, reqVars, bcVars, psVars, tzVars, txVars>>
    \/ /\ \E a \in Assets, res \in LedgerResults : UpdateLedger(a, res)
       /\ UNCHANGED <<fmVars, cfgVars, ACTIVE_TRADES, run, wsVars, ecVars, reqVars, bcVars, psVars, tzVars, txVars>>

SpecCeiling == LedgerInit /\ [][CeilingNext]_vars

\* ---- the transport on its own: one caller thread and the receive threads
WsStep == WsNext /\ UNCHANGED <<fmVars, cfgVars, engVars, ledVars, ecVars, reqVars, bcVars, psVars, tzVars, txVars>>
WsSpecInit ==
    /\ FmInit /\ EngInit /\ AuxInit
    /\ paused = FALSE
    /\ suppress_overlapping_signals = TRUE
    /\ smart_martingale = FALSE
    /\ max_martingale_gales = 0
    /\ martingale_multiplier = 2
SpecWS == WsSpecInit /\ [][WsStep]_vars

\* ---- ensure_connection on its own
EcStep == EcNext /\ UNCHANGED <<fmVars, cfgVars, engVars, ledVars, wsVars, reqVars, bcVars, psVars, tzVars, txVars>>
SpecConn == WsSpecInit /\ [][EcStep]_vars

\* ---- requests on their own
ReqStep == ReqNext /\ UNCHANGED <<fmVars, cfgVars, engVars, ledVars, wsVars, ecVars, bcVars, psVars, tzVars, txVars>>
SpecReq == WsSpecInit /\ [][ReqStep]_vars

\* ---- the wait for candles on its own
BcStep == BcNext /\ UNCHANGED <<fmVars, cfgVars, engVars, ledVars, wsVars, ecVars, reqVars, psVars, tzVars, txVars>>
SpecWait == WsSpecInit /\ [][BcStep]_vars

\* ---- parse_signal on its own, over the lines
PsStep == PsNext /\ UNCHANGED <<fmVars, cfgVars, engVars, ledVars, wsVars, ecVars, reqVars, bcVars, tzVars, txVars>>
PsSpecInit ==
    /\ FmInit /\ EngInit /\ LedInit /\ WsInit /\ EcInit /\ ReqInit /\ BcInit /\ PsInit /\ TzIdle /\ TxIdle
    /\ paused = FALSE
    /\ suppress_overlapping_signals = TRUE
    /\ smart_martingale = FALSE
    /\ max_martingale_gales = 0
    /\ martingale_multiplier = 2
SpecParse == PsSpecInit /\ [][PsStep]_vars

\* ---- parse_time_12h on its own, over the calls
TzStep == TzNext /\ UNCHANGED <<fmVars, cfgVars, engVars, ledVars, wsVars, ecVars, reqVars, bcVars, psVars, txVars>>
TzSpecInit ==
    /\ FmInit /\ EngInit /\ LedInit /\ WsInit /\ EcInit /\ ReqInit /\ BcInit /\ PsIdle /\ TzInit /\ TxIdle
    /\ paused = FALSE
    /\ suppress_overlapping_signals = TRUE
    /\ smart_martingale = FALSE
    /\ max_martingale_gales = 0
    /\ martingale_multiplier = 2
SpecClock == TzSpecInit /\ [][TzStep]_vars

\* ---- the two text parsers on their own, over the texts
TxStep == TxNext /\ UNCHANGED <<fmVars, cfgVars, engVars, ledVars, wsVars, ecVars, reqVars, bcVars, psVars, tzVars>>
TxSpecInit ==
    /\ FmInit /\ EngInit /\ LedInit /\ WsInit /\ EcInit /\ ReqInit /\ BcInit /\ PsIdle /\ TzIdle /\ TxInit
    /\ paused = FALSE
    /\ suppress_overlapping_signals = TRUE
    /\ smart_martingale = FALSE
    /\ max_martingale_gales = 0
    /\ martingale_multiplier = 2
SpecText == TxSpecInit /\ [][TxStep]_vars

\* ================================================================ claims
\* ---- orders of first_main.run_trade, by what the venue answered
OrderWon(o) == o.resolved /\ o.ok /\ o.pnl > 0
OrderLost(o) == o.resolved /\ o.ok /\ o.pnl < 0
OrderTimedOut(o) == o.resolved /\ ~o.ok
FmOrderIdx == 1..Len(fm_orders)

\* C4: a classic run makes at most max_gales + 1 attempts, and an attempt the
\* venue resolved as a win is the last attempt of the run.
C4_AttemptsBounded ==
    fm_pc # "idle" =>
        /\ Len(fm_orders) <= fm_max_gales + 1
        /\ \A i \in FmOrderIdx : OrderWon(fm_orders[i]) => i = Len(fm_orders)

\* A run that won on its last allowed attempt, after losses.
C4_Witness ==
    /\ fm_pc = "returned"
    /\ fm_exit = "WIN"
    /\ fm_max_gales >= 1
    /\ Len(fm_orders) = fm_max_gales + 1
    /\ OrderWon(fm_orders[Len(fm_orders)])

\* C5: a run whose every order was accepted and resolved as a loss makes
\* exactly max_gales + 1 attempts, ends as LOSS, and its gale count equals the
\* max_gales it was started with.
C5_AllLoss ==
    ( /\ fm_pc = "returned"
      /\ fm_exit \notin {"FAILED", "RAISED"}
      /\ \A i \in FmOrderIdx : OrderLost(fm_orders[i]) )
    => /\ Len(fm_orders) = fm_max_gales + 1
       /\ fm_exit = "LOSS"
       /\ fm_gale = fm_max_gales

\* An all-loss run with max_gales = 1: two attempts, gale count 1.
C5_Witness ==
    /\ fm_pc = "returned"
    /\ fm_exit = "LOSS"
    /\ fm_max_gales = 1
    /\ Len(fm_orders) = 2
    /\ \A i \in FmOrderIdx : OrderLost(fm_orders[i])

\* C7: the stake of attempt n (0-based) is base_stake * 2^n.
C7_StakeDoubles ==
    \A i \in FmOrderIdx : fm_orders[i].stake = fm_amount * Pow(2, i - 1)

\* Three attempts were made, the third after two losses.
C7_Witness ==
    /\ Len(fm_orders) = 3
    /\ OrderLost(fm_orders[1])
    /\ OrderLost(fm_orders[2])

\* C8: a rejected submission ends the run at once: no order is added, the
\* stake is not raised, the run does not end as LOSS and nothing follows it.
C8_RejectionTerminal ==
    [][ /\ fm_exit = "FAILED" => fm_exit' = "FAILED"
        /\ fm_exit' = "FAILED" =>
              /\ fm_pc' = "returned"
              /\ fm_orders' = fm_orders
              /\ fm_current_amount' = fm_current_amount
              /\ fm_gale' = fm_gale ]_vars

\* The submission of attempt 1 was rejected, after attempt 0 lost.
C8_Witness ==
    /\ fm_exit = "FAILED"
    /\ fm_pc = "returned"
    /\ Len(fm_orders) = 1
    /\ fm_gale = 1
    /\ OrderLost(fm_orders[1])

\* C9: an attempt whose outcome did not resolve within the timeout is the
\* last of its run: the run has ended as NO_DATA and the stake is still that
\* of the attempt.
C9_TimeoutEndsRun ==
    \A i \in FmOrderIdx :
        OrderTimedOut(fm_orders[i]) =>
            /\ i = Len(fm_orders)
            /\ fm_pc = "returned"
            /\ fm_exit = "NO_DATA"
            /\ fm_current_amount = fm_orders[i].stake

\* ---- runs of the engine
Live(r) == run[r].pc \in {"attempt", "awaiting"}
Keys == Assets \X Directions
HeldKeys == { KeyOf(r) : r \in { q \in Runs : run[q].holds } }
AttemptPnl(a) == IF a.outcome \in {"WIN", "LOSS"} THEN a.pnl ELSE 0
RECURSIVE SumPnl(_)
SumPnl(as) == IF as = <<>> THEN 0 ELSE AttemptPnl(Head(as)) + SumPnl(Tail(as))

C2_SuppressedNoAttempt ==
    [][ \A r \in Runs, a \in Assets, d \in Directions, b \in BaseStakes :
          ( /\ Execute(r, a, d, b)
            /\ suppress_overlapping_signals
            /\ <<a, d>> \in ACTIVE_TRADES )
          => /\ run'[r].pc = "done"
             /\ run'[r].result = "SUPPRESSED"
             /\ run'[r].attempts = <<>>
             /\ ACTIVE_TRADES' = ACTIVE_TRADES
             /\ \A q \in Runs \ {r} : run'[q] = run[q] ]_vars

\* Scenario B: the second run was suppressed, the first ran to its WIN.
C2_Witness ==
    /\ suppress_overlapping_signals
    /\ run[2].result = "SUPPRESSED"
    /\ run[2].attempts = <<>>
    /\ run[1].result = "WIN"
    /\ Len(run[1].attempts) = 1

\* C3 as stated: a run started while trading is paused ends as SKIPPED with
\* zero attempts and the registry untouched.
C3_PausedSkipped ==
    [][ \A r \in Runs, a \in Assets, d \in Directions, b \in BaseStakes :
          (Execute(r, a, d, b) /\ paused)
          => /\ run'[r].pc = "done"
             /\ run'[r].result = "SKIPPED"
             /\ run'[r].attempts = <<>>
             /\ ACTIVE_TRADES' = ACTIVE_TRADES ]_vars

\* C3 amended: a run started while trading is paused, and which the entry
\* guard does not deny, ends as SKIPPED with zero attempts and the registry
\* untouched; one the guard denies ends as SUPPRESSED, also with zero attempts
\* and the registry untouched.
C3_PausedSkippedUnlessDenied ==
    [][ \A r \in Runs, a \in Assets, d \in Directions, b \in BaseStakes :
          (Execute(r, a, d, b) /\ paused)
          => /\ run'[r].pc = "done"
             /\ run'[r].result =
                  IF suppress_overlapping_signals /\ <<a, d>> \in ACTIVE_TRADES
                  THEN "SUPPRESSED" ELSE "SKIPPED"
             /\ run'[r].attempts = <<>>
             /\ ~run'[r].holds
             /\ ACTIVE_TRADES' = ACTIVE_TRADES ]_vars

\* A run was skipped while the run before it, started before the pause, is
\* in flight.
C3_Witness ==
    /\ paused
    /\ Live(1)
    /\ run[2].result = "SKIPPED"
    /\ KeyOf(1) \in ACTIVE_TRADES

\* C6: at the end of a run, total_profit is the sum of the signed profit/loss
\* of every attempt of the run.
C6_TotalProfit ==
    \A r \in Runs : run[r].pc = "done" => run[r].profit = SumPnl(run[r].attempts)

\* Scenario A: base stake 1, LOSS (-1) then WIN (+1.6): total 0.6, two attempts.
C6_Witness ==
    \E r \in Runs :
        /\ run[r].pc = "done"
        /\ run[r].result = "WIN"
        /\ Len(run[r].attempts) = 2
        /\ run[r].attempts[1].pnl = -10
        /\ run[r].attempts[2].pnl = 16
        /\ run[r].profit = 6

\* C10: a key in the registry is held by a run in flight, so a run that has
\* ended by any exit path has left none behind; a run started when no run in
\* flight holds its key is not suppressed; and every registered key leaves the
\* registry.
C10_Released ==
    /\ [](ACTIVE_TRADES \subseteq HeldKeys)
    /\ [][ \A r \in Runs, a \in Assets, d \in Directions, b \in BaseStakes :
             (Execute(r, a, d, b) /\ <<a, d>> \notin HeldKeys)
             => run'[r].result # "SUPPRESSED" ]_vars
    /\ \A k \in Keys : (k \in ACTIVE_TRADES) ~> (k \notin ACTIVE_TRADES)

\* With suppression enabled, the first run ended by an unexpected error and
\* the second run was then admitted.
C10_Witness ==
    /\ suppress_overlapping_signals
    /\ run[1].result = "ERROR"
    /\ Live(2)
    /\ ACTIVE_TRADES = {KeyOf(2)}

\* C11: try_acquire is one atomic check-and-insert. With suppression enabled,
\* a run that is not paused acquires its key exactly when the key is absent,
\* and the key is registered by the same step; so of two runs started for
\* the same key exactly one holds it and no state has two holders of a key.
C11_AtomicAcquire ==
    /\ [](suppress_overlapping_signals =>
            \A r1, r2 \in Runs :
                (r1 # r2 /\ run[r1].holds /\ run[r2].holds) => KeyOf(r1) # KeyOf(r2))
    /\ [][\A r \in Runs, a \in Assets, d \in Directions, b \in BaseStakes :
            (Execute(r, a, d, b) /\ suppress_overlapping_signals /\ ~paused) =>
                /\ run'[r].holds <=> (<<a, d>> \notin ACTIVE_TRADES)
                /\ run'[r].holds => (<<a, d>> \in ACTIVE_TRADES')
                /\ ~run'[r].holds => (run'[r].result = "SUPPRESSED" /\ ACTIVE_TRADES' = ACTIVE_TRADES)]_vars

\* Two runs were started for one key: the first holds it, alone in the
\* registry, and the second was turned away.
C11_Witness ==
    /\ suppress_overlapping_signals
    /\ run[1].holds
    /\ run[1].pc = "awaiting"
    /\ ACTIVE_TRADES = {KeyOf(1)}
    /\ run[2].result = "SUPPRESSED"
    /\ run[2].attempts = <<>>

\* C12: with suppression disabled try_acquire always succeeds: no run ever
\* ends SUPPRESSED, and a run that is not paused is admitted even when its
\* key is registered by a run in flight.
C12_NeverSuppressed ==
    /\ [](~suppress_overlapping_signals => \A r \in Runs : run[r].result # "SUPPRESSED")
    /\ [][\A r \in Runs, a \in Assets, d \in Directions, b \in BaseStakes :
            (Execute(r, a, d, b) /\ ~suppress_overlapping_signals /\ ~paused) =>
                run'[r].holds /\ run'[r].pc = "attempt"]_vars

\* Two runs for the same key are in flight together.
C12_Witness ==
    /\ ~suppress_overlapping_signals
    /\ Live(1) /\ Live(2)
    /\ KeyOf(1) = KeyOf(2)
    /\ KeyOf(1) \in ACTIVE_TRADES

\* C13: in smart mode a run has an attempt budget of 0 whatever
\* max_martingale_gales is: it never places a second order, and a run that
\* ended WIN, LOSS or NO_DATA placed exactly one, at gale 0.
C13_SmartOneAttempt ==
    smart_martingale =>
        \A r \in Runs :
            /\ Len(run[r].attempts) <= 1
            /\ Live(r) => (run[r].max_gales = 0 /\ run[r].gale = 0)
            /\ run[r].result \in {"WIN", "LOSS", "NO_DATA"} =>
                    (Len(run[r].attempts) = 1 /\ run[r].gales = 0)

\* A smart-mode run lost its only attempt although one gale is configured.
C13_Witness ==
    /\ smart_martingale
    /\ max_martingale_gales = 1
    /\ \E r \in Runs :
          /\ run[r].result = "LOSS"
          /\ Len(run[r].attempts) = 1
          /\ run[r].attempts[1].outcome = "LOSS"

\* ---- calls on the ledger
LevelOf(asset) == IF asset \in DOMAIN states THEN states[asset].level ELSE 0

\* C14: in smart mode the stake returned for a run is base_stake times
\* multiplier to the power of the instrument's level at that moment, the base
\* stake itself at level 0.
C14_SmartStake ==
    [][\A a \in Assets, b \in BaseStakes :
         (ReadLedger(a, b) /\ smart_martingale) =>
            /\ led'.ret.amount = b * Pow(martingale_multiplier, LevelOf(a))
            /\ LevelOf(a) = 0 => led'.ret.amount = b
            /\ LevelOf(a) = 1 => led'.ret.amount = b * martingale_multiplier]_vars

\* With ceiling 1, one LOSS on an instrument, then the stake of the next
\* signal for it: base times multiplier.
C14_Witness ==
    /\ smart_martingale
    /\ max_martingale_gales = 1
    /\ led.op = "read"
    /\ led.level = 1
    /\ led.asset \in DOMAIN states
    /\ states[led.asset] = [level |-> 1, last_result |-> "LOSS"]
    /\ led.ret.amount = led.base * martingale_multiplier

\* C15: in smart mode an update with LOSS raises the instrument's level by
\* one when the level is below the ceiling, and sets it to 0 otherwise.
C15_LossLevel ==
    [][\A a \in Assets :
         (UpdateLedger(a, "LOSS") /\ smart_martingale) =>
            /\ a \in DOMAIN states'
            /\ states'[a].level = IF LevelOf(a) < max_martingale_gales
                                  THEN LevelOf(a) + 1 ELSE 0]_vars

\* A LOSS at the ceiling put the level back to 0.
C15_Witness ==
    /\ smart_martingale
    /\ led.op = "update" /\ led.result = "LOSS"
    /\ led.level >= 1 /\ led.level = led.ceiling
    /\ states[led.asset].level = 0

\* C16: in smart mode an update with WIN sets the instrument's level to 0.
C16_WinResets ==
    [][\A a \in Assets :
         (UpdateLedger(a, "WIN") /\ smart_martingale) =>
            (a \in DOMAIN states' /\ states'[a].level = 0)]_vars

\* A WIN after losses: the level was above 0 and is 0.
C16_Witness ==
    /\ smart_martingale
    /\ led.op = "update" /\ led.result = "WIN"
    /\ led.level >= 1
    /\ states[led.asset] = [level |-> 0, last_result |-> "WIN"]

\* C17: a read of the ledger changes nothing, creates no entry, and two
\* reads of an instrument with no update between them see the same level.
C17_ReadIdempotent ==
    [][\A a \in Assets, b \in BaseStakes :
         ReadLedger(a, b) =>
            /\ states' = states
            /\ led'.level = LevelOf(a)
            /\ (led.op = "read" /\ led.asset = a) => led'.level = led.level]_vars

\* An instrument without an entry was read in smart mode and has none.
C17_Witness ==
    /\ smart_martingale
    /\ led.op = "read"
    /\ led.asset \notin DOMAIN states
    /\ DOMAIN states # {}

\* C18: the attempts of one run are strictly sequential: an order is
\* submitted only when the outcome of every earlier order of the run has
\* resolved or timed out, so at most the last order is pending.
C18_Sequential ==
    /\ [](\A i \in FmOrderIdx : i < Len(fm_orders) => fm_orders[i].resolved)
    /\ [](fm_pc = "place" => \A i \in FmOrderIdx : fm_orders[i].resolved)
    /\ [][Len(fm_orders') > Len(fm_orders) =>
            /\ \A i \in FmOrderIdx : fm_orders[i].resolved
            /\ Len(fm_orders') = Len(fm_orders) + 1
            /\ ~fm_orders'[Len(fm_orders')].resolved]_vars

\* The third order is pending; the two before it resolved, one as a loss
\* and one by timeout.
C18_Witness ==
    /\ Len(fm_orders) = 3
    /\ fm_pc = "wait"
    /\ OrderLost(fm_orders[1])
    /\ OrderTimedOut(fm_orders[2])
    /\ ~fm_orders[3].resolved

\* C19 as stated: start_websocket never returns normally to its caller
\* while ws_is_open is still false (a handshake that does not arrive within
\* the timeout ends the call with ConnectionError, not with a return).
C19_NoReturnUnopened ==
    [][(sw_pc = "poll" /\ sw_pc' = "idle") => ws_is_open]_vars

\* ---- attempts of an ensure_connection call
EcFailures(n) == \A i \in 1..n : ec_log[i] # "connected"

C21_ErrorContained == fm_exit # "RAISED"

\* C22: a run the approval collaborator answered false for ends SKIPPED
\* with no order submitted, no profit or loss and its guard entry released;
\* the answer is taken while the run has made no attempt.
C22_DisapprovedSkipped ==
    /\ [](\A r \in Runs :
            ~run[r].approved =>
                /\ run[r].pc = "done"
                /\ run[r].result = "SKIPPED"
                /\ run[r].attempts = <<>>
                /\ run[r].profit = 0
                /\ ~run[r].holds)
    /\ [][\A r \in Runs :
            Disapprove(r) =>
                /\ run[r].attempts = <<>>
                /\ run'[r].result = "SKIPPED"
                /\ KeyOf(r) \notin ACTIVE_TRADES']_vars

\* A run was admitted while trading was not paused and then cancelled by
\* the collaborator.
C22_Witness ==
    \E r \in Runs :
        /\ ~run[r].approved
        /\ run[r].result = "SKIPPED"
        /\ run[r].attempts = <<>>

\* C23 as stated: a correlated wait that ends with no reply fails with
\* Timeout (and one that ends with a reply returns it).
C23_WaitTimesOut ==
    \A i \in 1..Len(bc_got) : bc_got[i] \in {"reply", "Timeout"}

\* C24 as stated: the identifiers of the requests that are outstanding
\* together are pairwise distinct.
C24_DistinctIds ==
    \A i, j \in 1..Len(rq) :
        (i # j /\ rq[i].open /\ rq[j].open) => rq[i].id # rq[j].id

\* The two lines of the repair examples.
C25_LineO == <<"O", "8", ":", "O", "5", ";", "G", "B", "P", "U", "S", "D", ";", "C", "A", "L", "L", ";", "1", "5">>
C25_LineI == <<" ", "0", "3", ":", "4", "0", " ", "i", " ", "E", "U", "R", "A", "U", "D", " ", "i", " ", "P", "U", "T", " ", "i", " ", "1", " ">>

\* C25: the line "O8:O5;GBPUSD;CALL;15" gives 08:05, GBPUSD, CALL, 15, and
\* the line " 03:40 i EURAUD i PUT i 1 " gives 03:40, EURAUD, PUT, 1.
C25_Repairs ==
    /\ (ps_pc # "input" /\ ps_line = C25_LineO) =>
            ps_out = [ok |-> TRUE, time |-> <<"0", "8", ":", "0", "5">>, pair |-> <<"G", "B", "P", "U", "S", "D">>, direction |-> Call, expiry |-> 15]
    /\ (ps_pc # "input" /\ ps_line = C25_LineI) =>
            ps_out = [ok |-> TRUE, time |-> <<"0", "3", ":", "4", "0">>, pair |-> <<"E", "U", "R", "A", "U", "D">>, direction |-> Put, expiry |-> 1]

\* The line with the letter O in the time has been parsed into a signal.
C25_Witness ==
    /\ ps_pc = "parsed"
    /\ ps_line = C25_LineO
    /\ ps_out.ok

\* The text holds one message of the channel, with a 12-hour entry time and
\* the timer in minutes.
OneBlock(text) ==
    /\ Cardinality({ i \in 1..Len(text) : At(text, i, KwTrade) }) = 1
    /\ Contains(text, <<" ", "m", "i", "n", "u", "t", "e", "s">>)
    /\ Contains(text, <<" ", "P", "M">>) \/ Contains(text, <<" ", "A", "M">>)
SaysSell(text) == Contains(text, <<"D", "i", "r", "e", "c", "t", "i", "o", "n", ":", " ", "S", "E", "L", "L">>)
SaysBuy(text) == Contains(text, <<"D", "i", "r", "e", "c", "t", "i", "o", "n", ":", " ", "B", "U", "Y">>) \/ Contains(text, <<"D", "i", "r", "e", "c", "t", "i", "o", "n", ":", " ", "b", "u", "y">>)
EurUsdOtc == <<"E", "U", "R", "U", "S", "D", "-", "O", "T", "C">>

C27_RoundTrip ==
    ps_pc = "reparsed" => ps_back = ps_out

\* C28 as stated: a returned signal has a positive expiry, direction CALL or
\* PUT and a non-empty instrument; a line of fewer than four fields, with
\* another direction word or with an expiry without a digit gives no signal.
C28_ValidOrRejected ==
    /\ (ps_pc # "input" /\ ps_out.ok) =>
            /\ ps_out.expiry > 0
            /\ ps_out.direction \in {Call, Put}
            /\ ps_out.pair # <<>>
    /\ ps_pc # "input" =>
            LET parts == Split(clean_signal_line(ps_line), ";")
            IN  (\/ Len(parts) < 4
                 \/ Upper(parts[3]) \notin {Call, Put}
                 \/ DigitsOf(parts[4]) = <<>>) => ps_out = NoSignal

\* C29 as stated: the entry resolves to today when it is not in the past or
\* is past by at most 30 minutes, and to tomorrow when it is past by more.
C29_GraceWindow ==
    tz_pc = "resolved" =>
        LET today == TodayAt(tz_hour, tz_minute, tz_am_pm)
        IN  IF today >= tz_now \/ tz_now - today <= GraceSeconds
            THEN tz_entry = today
            ELSE tz_entry = today + DaySeconds

\* C30 as stated: a text that holds a message of the channel and a compact
\* line gives the signal of the message and the signal of the line.
C30_BothForms ==
    (tx_pc # "input" /\ Contains(tx_text, SellBlock) /\ Contains(tx_text, CompactA)) =>
        /\ \E k \in 1..Len(tx_signals) : tx_signals[k].pair = EurUsdOtc
        /\ \E k \in 1..Len(tx_signals) : tx_signals[k] = parse_signal(CompactA)

\* C31 as stated: of a text without a message of the channel, every line
\* that is a signal on its own is returned, by parse_signals_from_text and
\* by parse_signals_from_file, whatever the other lines are.
C31_GoodLinesKept ==
    (tx_pc = "filed" /\ ~Contains(tx_text, KwTrade)) =>
        \A n \in 1..Len(ReadLines(tx_text)) :
            parse_signal(ReadLines(tx_text)[n]).ok =>
                /\ \E k \in 1..Len(tx_signals) : tx_signals[k] = parse_signal(ReadLines(tx_text)[n])
                /\ \E k \in 1..Len(tx_file) : tx_file[k] = parse_signal(ReadLines(tx_text)[n])

\* C32 as stated: the error callback leaves ws_is_open false, and once the
\* error callback of the current connection has returned ws_is_open stays
\* false until start_websocket is called again.
C32_ErrorStaysClosed ==
    /\ [][\A n \in Apps : (WsCallback(n) /\ ws_cb[n] = "error") => ~ws_is_open']_vars
    /\ [](websocket \in ws_failed => ~ws_is_open)

\* C33: the callback of a frame that does not decode does not call the
\* handler and changes neither flag nor the state of the receive thread, and
\* a frame that decodes is handed to the handler, also after a dropped one.
C33_UndecodableDropped ==
    /\ [][\A n \in Apps :
            (WsCallback(n) /\ ws_cb[n] = "badmessage") =>
                /\ ws_log' = Append(ws_log, "dropped")
                /\ UNCHANGED <<ws_is_open, ws_is_active, wst, websocket>>]_vars
    /\ [][\A n \in Apps :
            (WsCallback(n) /\ ws_cb[n] = "message") =>
                ws_log' = Append(ws_log, "handled")]_vars

\* A frame was dropped and the next frame was handed to the handler.
C33_Witness == ws_log = <<"dropped", "handled">>

\* C34: the latch is cleared when a request is sent, and what the waiter of
\* request i reads is nothing or the reply to request i, never the reply to
\* another request.
C34_ReadOwnReply ==
    /\ bc_pc \in {"poll", "read"} => candles \subseteq {bc_n}
    /\ \A i \in 1..Len(bc_read) : bc_read[i] \subseteq {i}

\* Two waits in a row each read the reply to their own request.
C34_Witness == Len(bc_read) >= 2 /\ bc_read[1] = {1} /\ bc_read[2] = {2}

\* C35: update_result changes nothing in the ledger when smart mode is off,
\* and nothing when the result is neither WIN nor LOSS.
C35_OnlyWinLoss ==
    [][\A a \in Assets, res \in LedgerResults :
         (UpdateLedger(a, res) /\ (~smart_martingale \/ res \notin {"WIN", "LOSS"})) =>
            states' = states]_vars

\* In smart mode a result that is neither WIN nor LOSS was reported for an
\* instrument above level 0, and the level is what it was.
C35_Witness ==
    /\ smart_martingale
    /\ led.op = "update" /\ led.result \in {"NO_DATA", "SKIPPED", "SUPPRESSED", "ERROR"}
    /\ led.level >= 1
    /\ led.asset \in DOMAIN states /\ states[led.asset].level = led.level

\* C36: update_result for one instrument leaves the entry of every other
\* instrument as it was.
C36_PerInstrument ==
    [][\A a \in Assets, res \in LedgerResults :
         UpdateLedger(a, res) =>
            \A b \in Assets \ {a} :
                /\ (b \in DOMAIN states') = (b \in DOMAIN states)
                /\ b \in DOMAIN states => states'[b] = states[b]]_vars

\* A LOSS was recorded for one instrument while another stands above level 0.
C36_Witness ==
    /\ smart_martingale
    /\ led.op = "update" /\ led.result = "LOSS"
    /\ led.asset \in DOMAIN states /\ states[led.asset].level >= 1
    /\ \E b \in (DOMAIN states) \ {led.asset} : states[b].level >= 1

\* C37: while the ceiling is not changed every level of the ledger is
\* between 0 and the ceiling, and the stake of a read in smart mode is at
\* most base * multiplier^ceiling.
C37_LevelBounded ==
    /\ \A a \in DOMAIN states :
           0 <= states[a].level /\ states[a].level <= max_martingale_gales
    /\ (led.op = "read" /\ smart_martingale) =>
           led.ret.amount <= led.base * Pow(martingale_multiplier, max_martingale_gales)

\* An instrument stands at the ceiling and its stake is the bound itself.
C37_Witness ==
    /\ smart_martingale
    /\ max_martingale_gales >= 1
    /\ led.op = "read" /\ led.level = max_martingale_gales
    /\ led.ret.amount = led.base * Pow(martingale_multiplier, max_martingale_gales)

\* C38: a call that meets its key in the registry under suppression ends
\* SUPPRESSED and leaves the registry as it was, and a call that ends
\* SUPPRESSED never changes the registry; so the key of the run in flight is
\* still there for the next call.
C38_SuppressedKeepsRegistry ==
    /\ [][\A r \in GuardRuns, a \in Assets, d \in Directions, b \in BaseStakes :
            (Execute(r, a, d, b) /\ suppress_overlapping_signals /\ <<a, d>> \in ACTIVE_TRADES) =>
                (run'[r].result = "SUPPRESSED" /\ ACTIVE_TRADES' = ACTIVE_TRADES)]_vars
    /\ [][\A r \in GuardRuns :
            (run[r].pc = "idle" /\ run'[r].result = "SUPPRESSED") =>
                ACTIVE_TRADES' = ACTIVE_TRADES]_vars

\* The first run is in flight and holds its key; the second and the third
\* call were both suppressed.
C38_Witness ==
    /\ run[1].holds /\ run[1].pc \in {"attempt", "awaiting"}
    /\ ACTIVE_TRADES = {KeyOf(1)}
    /\ run[2].result = "SUPPRESSED"
    /\ run[3].result = "SUPPRESSED"

\* C39: under suppression a call whose (instrument, direction) pair is not
\* in the registry is admitted, whatever else is registered, and a key
\* leaves the registry only when the run that holds that key ends.
C39_KeyIsPair ==
    /\ [][\A r \in Runs, a \in Assets, d \in Directions, b \in BaseStakes :
            (Execute(r, a, d, b) /\ suppress_overlapping_signals /\ ~paused
                /\ <<a, d>> \notin ACTIVE_TRADES) =>
                (run'[r].pc = "attempt" /\ ACTIVE_TRADES' = ACTIVE_TRADES \cup {<<a, d>>})]_vars
    /\ [][\A k \in ACTIVE_TRADES :
            k \notin ACTIVE_TRADES' =>
                \E r \in Runs : run[r].holds /\ KeyOf(r) = k /\ run'[r].pc = "done"]_vars

\* Under suppression the CALL and the PUT of one instrument are in flight
\* together.
C39_Witness ==
    /\ suppress_overlapping_signals
    /\ \E r, q \in Runs :
          /\ run[r].holds /\ run[q].holds
          /\ run[r].asset = run[q].asset
          /\ run[r].direction = "CALL" /\ run[q].direction = "PUT"
          /\ {KeyOf(r), KeyOf(q)} \subseteq ACTIVE_TRADES

\* C40 as stated: after close() both flags stay false until start_websocket
\* is called again.
C40_ClosedStaysClosed ==
    ws_closed => (~ws_is_open /\ ~ws_is_active)

====
